---- MODULE Spec2Model ----
(***************************************************************************)
(* Model of the prescription event pipeline of backend/index.js: the      *)
(* in-process EventStore maps, the dispense lock, the ledger gateway and   *)
(* its mirror, and the request handlers issue-prescription, verify,        *)
(* payments, dispense, cancel, amend and the status refresh endpoints.     *)
(* Every handler is split at the awaits it actually reaches, so that the   *)
(* interleavings of the model are the interleavings of the event loop.     *)
(***************************************************************************)
EXTENDS Naturals, Integers, Sequences, FiniteSets, TLC

(* ------------------------------ bounds -------------------------------- *)
\* channel ids the ledger (or the placeholder fallback) can hand out
Topics == {"0.0.1", "0.0.2"}
\* pharmacist national ids
Pharmacists == {"ph1", "ph2"}
\* the order the ledger numbers its channels in
TopicLess(a, b) == a = "0.0.1" /\ b = "0.0.2"
\* largest maxDispenses a doctor asks for (the route allows 1..12)
MaxMd == 2
\* total number of requests the clients send
MaxRequests == 3

(* ------------------------------ values -------------------------------- *)
\* JavaScript undefined, for hash-valued and object-valued slots
Undefined == [undefined |-> TRUE]
\* JavaScript undefined, for string-valued slots
NoType == "undefined"
\* Map.get of a key that is absent from inMemoryStore
NoObj == 0

\* x || d for numbers: 0 and undefined (-1) are falsy
OrNum(x, d) == IF x = 0 \/ x = -1 THEN d ELSE x

\* the fields of an event that are derived from its other fields
DerivedFields == {"contentHash", "signature"}

\* 'sha256:' + sha256(JSON.stringify(x)): an injective digest of the fields
\* of x; a derived field contributes its presence (its value is a function
\* of the fields it covers)
Sha256(x) ==
  [sha256 |-> [f \in DOMAIN x |-> IF f \in DerivedFields THEN Undefined ELSE x[f]]]

\* signPayload(payload, actorId): signature over the payload without its
\* signature field, under the actor's key
signPayload(payload, actorId) ==
  [signer |-> actorId,
   over |-> Sha256([f \in (DOMAIN payload) \ {"signature"} |-> payload[f]])]

\* keyId = 'fp:' + sha256(publicKey)[0:16], one key pair per actor id
KeyId(actorId) == <<"fp", actorId>>

\* hashIdentifier(id, salt, prescriptionId): a salted digest of an identifier
HashIdentifier(id) == <<"idhash", id>>
\* JavaScript null, where an identifier digest may stand
Null == <<"null">>

\* r.f for a numeric field, undefined (-1) when the field is absent
NumField(r, f) == IF f \in DOMAIN r THEN r[f] ELSE -1

(* ------------------------------- state -------------------------------- *)
VARIABLES
  elapsed,                \* Date.now(): how many of the validUntil instants
                          \* set so far lie in the past
  requests,               \* requests received so far
  nonceCtr,               \* crypto.randomBytes(8): the nonces drawn so far
  heap,                   \* the entry objects ever put in inMemoryStore
  inMemoryStore,          \* topicID -> entry object (NoObj when absent)
  prescriptionToTopic,    \* prescriptionId -> topicID
  issued,                 \* what each issuance took and gave: doctor, QR, payload
  lastEventHashPerTopic,  \* topicID -> hash head
  lastEventTypePerTopic,  \* topicID -> type of the last applied event
  usedNonces,             \* consumed nonces
  hcsEventLog,            \* the audit log
  sensitiveData,          \* topicID -> SensitiveRecord
  messageQueue,           \* queueMessage's queue
  dispenseLocks,          \* topicID -> lock
  submitted,              \* events handed to the ledger gateway, in order
  ledgerStatus,           \* topicID -> status the ledger holds
  mirrorStatus,           \* topicID -> status the mirror answers (may lag)
  issuing,                \* issue requests awaiting the ledger
  dispensing,             \* dispense requests awaiting the ledger
  paying,                 \* payment requests awaiting the timer or the ledger
  lastResp,               \* the response the last step sent, if any
  dispSucc,               \* history: successful dispense responses per entry
  overlapped,             \* history: entries whose dispenses have overlapped
  commits,                \* history: (entry, count) pairs committed
  doubleCommit,           \* history: one (entry, count) pair committed twice
  cancelled,              \* history: topics with a successful cancel
  appliedTypes,           \* history: the life-cycle steps each topic went through
  acceptedNonces          \* history: nonces of the payloads verify accepted

vars == <<elapsed, requests, nonceCtr, heap, inMemoryStore,
          prescriptionToTopic, issued, lastEventHashPerTopic,
          lastEventTypePerTopic, usedNonces, hcsEventLog, sensitiveData,
          messageQueue, dispenseLocks, submitted, ledgerStatus, mirrorStatus,
          issuing, dispensing, paying, lastResp, dispSucc, overlapped,
          commits, doubleCommit, cancelled, appliedTypes, acceptedNonces>>

\* the store's maps and the audit log
storeVars == <<heap, inMemoryStore, lastEventHashPerTopic,
               lastEventTypePerTopic, hcsEventLog, sensitiveData>>
\* the histories that only dispense writes
dispenseHist == <<dispSucc, commits, doubleCommit>>

NoLock == [held |-> FALSE]
\* getSensitiveData(topicID) of a channel nothing was stored for
NoData == [none |-> TRUE]
NoResp == [op |-> "none"]

\* inMemoryStore.get(topicID)?.payload?.dispenseCount || 0
StoredDispenseCount(t) ==
  IF inMemoryStore[t] = NoObj THEN 0
  ELSE OrNum(NumField(heap[inMemoryStore[t]].payload, "dispenseCount"), 0)

\* inMemoryStore.get(topicID)?.payload?.maxDispenses, undefined when absent
StoredMaxRaw(t) ==
  IF inMemoryStore[t] = NoObj THEN -1
  ELSE NumField(heap[inMemoryStore[t]].payload, "maxDispenses")

\* inMemoryStore.get(topicID)?.payload?.maxDispenses || 1
StoredMaxDispenses(t) == OrNum(StoredMaxRaw(t), 1)

\* setTopicStatus(topicID, status): sets the status of the channel's entry
SetTopicStatus(h, t, status) ==
  IF inMemoryStore[t] = NoObj THEN h
  ELSE [h EXCEPT ![inMemoryStore[t]].status = status]

InitServer ==
  /\ elapsed = 0
  /\ requests = 0
  /\ nonceCtr = 0
  /\ heap = <<>>
  /\ inMemoryStore = [t \in Topics |-> NoObj]
  /\ prescriptionToTopic = <<>>
  /\ issued = <<>>
  /\ lastEventHashPerTopic = [t \in Topics |-> Undefined]
  /\ lastEventTypePerTopic = [t \in Topics |-> NoType]
  /\ usedNonces = {}
  /\ hcsEventLog = <<>>
  /\ sensitiveData = [t \in Topics |-> NoData]
  /\ messageQueue = <<>>
  /\ dispenseLocks = [t \in Topics |-> NoLock]
  /\ submitted = <<>>
  /\ issuing = {}
  /\ dispensing = {}
  /\ paying = {}
  /\ lastResp = NoResp
  /\ dispSucc = <<>>
  /\ overlapped = {}
  /\ commits = {}
  /\ doubleCommit = FALSE
  /\ cancelled = {}
  /\ appliedTypes = [t \in Topics |-> {}]
  /\ acceptedNonces = {}

\* the server starts with empty maps against a ledger and a mirror that
\* report 'issued' for every channel id
Init ==
  /\ InitServer
  /\ ledgerStatus = [t \in Topics |-> "issued"]
  /\ mirrorStatus = [t \in Topics |-> "issued"]

\* the statuses of the channel state machine, which the mirror can report
LedgerStatuses == {"issued", "verified", "paid", "dispensed", "cancelled"}

\* the ledger outlives the server and has other writers: when the server
\* starts, the mirror reports any one status of the state machine for the
\* channel ids
PayInit ==
  /\ InitServer
  /\ \E s \in LedgerStatuses : ledgerStatus = [t \in Topics |-> s]
  /\ mirrorStatus = ledgerStatus

(* --------------------- POST /api/issue-prescription ------------------- *)
\* doctor national ids a request carries; "" when the field is omitted
DoctorIds == {"doc1", ""}

\* new Date(Date.now() + 60 days): the validUntil instants are numbered in
\* the order they are set, which is the order they pass in
ValidUntil == Len(issued) + 1

\* now > validUntil
PastValidUntil(validUntil) == validUntil <= elapsed

\* the QR payload, short field names, signed when a national id is given
QrPayload(t, md, n, nationalId) ==
  LET qr == [v |-> "1.0", t |-> t, h |-> "patient", d |-> "ATC1",
             q |-> "1mg", i |-> "1x/day", u |-> ValidUntil, n |-> n,
             g |-> "MA-33.57,-7.58",
             p |-> IF nationalId = "" THEN Null ELSE HashIdentifier(nationalId),
             dc |-> 0, md |-> md]
  IN IF nationalId = "" THEN qr
     ELSE [s |-> signPayload(qr, nationalId)] @@ qr

\* completePayload: the issued event, hashed, signed when a national id is
\* given (keyId and signature are attached after contentHash is computed)
IssuedPayload(t, md, n, nationalId) ==
  LET toHash == [version |-> "1", eventType |-> "issued", topicID |-> t,
                 validUntil |-> ValidUntil,
                 geoTag |-> "33.57,-7.58", hashedPatientId |-> "patient",
                 drugIds |-> <<"ATC1">>, instructionsList |-> <<"">>,
                 signerRole |-> "doctor", maxDispenses |-> md,
                 dispenseCount |-> 0, nonce |-> n]
      hashed == [contentHash |-> Sha256(toHash)] @@ toHash
      keyed  == [keyId |-> KeyId(nationalId)] @@ hashed
  IN IF nationalId = "" THEN hashed
     ELSE [signature |-> signPayload(keyed, nationalId)] @@ keyed

\* channel ids no prescription is stored under
FreeTopics == {t \in Topics : inMemoryStore[t] = NoObj}

\* createPrescriptionTopic: the ledger numbers its channels in sequence, and
\* a new channel's id is not in use
NextLedgerTopic ==
  IF FreeTopics = {} THEN NoType
  ELSE CHOOSE t \in FreeTopics : \A x \in FreeTopics : t = x \/ TopicLess(t, x)

\* `0.0.${Date.now() % 100000}`: the id synthesized when the ledger fails,
\* a number the ledger uses too
PlaceholderTopic == "0.0.1"

\* formData.maxDispenses || 1
RequestedMax(md) == OrNum(md, 1)

\* lines 675-880: the channel id is assigned by the ledger, or synthesized
\* when createPrescriptionTopic throws; the prescription is indexed, logged
\* and handed to the ledger
IssueIndex(t, mdIn, nationalId, viaLedger) ==
  LET md  == RequestedMax(mdIn)
      n   == nonceCtr + 1
      pay == IssuedPayload(t, md, n, nationalId)
      obj == Len(heap) + 1
  IN
  /\ requests < MaxRequests
  /\ t = IF viaLedger THEN NextLedgerTopic ELSE PlaceholderTopic
  /\ requests' = requests + 1
  /\ nonceCtr' = n
  /\ heap' = Append(heap, [id |-> obj, payload |-> pay, status |-> NoType])
  /\ inMemoryStore' = [inMemoryStore EXCEPT ![t] = obj]
  /\ prescriptionToTopic' = Append(prescriptionToTopic, t)
  /\ issued' = Append(issued, [topicID |-> t, nationalId |-> nationalId,
                               qr |-> QrPayload(t, md, n, nationalId),
                               payload |-> pay])
  /\ hcsEventLog' = Append(hcsEventLog,
        [topicID |-> t, eventType |-> "issued", dispenseCount |-> 0,
         maxDispenses |-> md])
  /\ sensitiveData' = [sensitiveData EXCEPT ![t] =
        [drugIds |-> pay.drugIds, preciseGeoTag |-> "33.57,-7.58",
         medications |-> "medications"]]
  /\ messageQueue' = Append(messageQueue, [topicID |-> t, eventType |-> "issued"])
  /\ submitted' = Append(submitted, [topicID |-> t, event |-> pay])
  /\ issuing' = issuing \cup {[obj |-> obj, topicID |-> t, degraded |-> ~viaLedger,
                               requested |-> mdIn]}
  /\ dispSucc' = Append(dispSucc, 0)
  /\ cancelled' = cancelled \ {t}
  /\ appliedTypes' = [appliedTypes EXCEPT ![t] = {}]
  /\ lastResp' = NoResp
  /\ UNCHANGED <<elapsed, lastEventHashPerTopic, lastEventTypePerTopic, usedNonces,
                 dispenseLocks, ledgerStatus, mirrorStatus, dispensing, paying,
                 overlapped, commits, doubleCommit, acceptedNonces>>

\* a faulty completion that leaves a placeholder channel without its last
\* event type
IssueFinishDegradedUntyped(r, ok) ==
  /\ r \in issuing
  /\ issuing' = issuing \ {r}
  /\ lastEventHashPerTopic' =
       [lastEventHashPerTopic EXCEPT ![r.topicID] = Sha256(heap[r.obj].payload)]
  /\ lastEventTypePerTopic' = IF r.degraded THEN lastEventTypePerTopic
       ELSE [lastEventTypePerTopic EXCEPT ![r.topicID] = "issued"]
  /\ ledgerStatus' = IF ok THEN [ledgerStatus EXCEPT ![r.topicID] = "issued"]
                     ELSE ledgerStatus
  /\ appliedTypes' = [appliedTypes EXCEPT ![r.topicID] = @ \cup {"issued"}]
  /\ lastResp' = [op |-> "issue", code |-> 200, topicID |-> r.topicID,
                  prescriptionId |-> r.obj, degraded |-> r.degraded]
  /\ UNCHANGED <<elapsed, requests, nonceCtr, heap, inMemoryStore,
                 prescriptionToTopic, issued, usedNonces, hcsEventLog,
                 sensitiveData, messageQueue, dispenseLocks, submitted,
                 mirrorStatus, dispensing, paying, dispSucc, overlapped,
                 commits, doubleCommit, cancelled, acceptedNonces>>

\* lines 881-910: the ledger answered or threw (the error is logged); the
\* hash head is set from the payload object as it is now, and the request
\* is answered
IssueFinish(r, ok) ==
  /\ r \in issuing
  /\ issuing' = issuing \ {r}
  /\ lastEventHashPerTopic' =
       [lastEventHashPerTopic EXCEPT ![r.topicID] = Sha256(heap[r.obj].payload)]
  /\ lastEventTypePerTopic' = [lastEventTypePerTopic EXCEPT ![r.topicID] = "issued"]
  /\ ledgerStatus' = IF ok THEN [ledgerStatus EXCEPT ![r.topicID] = "issued"]
                     ELSE ledgerStatus
  /\ appliedTypes' = [appliedTypes EXCEPT ![r.topicID] = @ \cup {"issued"}]
  /\ lastResp' = [op |-> "issue", code |-> 200, topicID |-> r.topicID,
                  prescriptionId |-> r.obj, degraded |-> r.degraded]
  /\ UNCHANGED <<elapsed, requests, nonceCtr, heap, inMemoryStore,
                 prescriptionToTopic, issued, usedNonces, hcsEventLog,
                 sensitiveData, messageQueue, dispenseLocks, submitted,
                 mirrorStatus, dispensing, paying, dispSucc, overlapped,
                 commits, doubleCommit, cancelled, acceptedNonces>>

(* --------------------------- the dispense lock ------------------------- *)
\* a held lock whose bounded duration has run out
LockExpired(l) == l.held /\ l.expired

\* acquireDispenseLock(topicID, ownerId) answers false, at once, when the
\* lock is held by a different owner and has not expired
CanAcquire(t, owner) ==
  LET l == dispenseLocks[t]
  IN IF ~l.held THEN TRUE
     ELSE IF LockExpired(l) THEN TRUE
     ELSE l.owner = owner

\* the lock table after a successful acquireDispenseLock(topicID, ownerId)
Acquired(t, owner) ==
  [dispenseLocks EXCEPT ![t] = [held |-> TRUE, owner |-> owner, expired |-> FALSE]]

\* releaseDispenseLock(topicID): idempotent, frees the channel's lock
Released(t) == [dispenseLocks EXCEPT ![t] = NoLock]

(* -------------------------- POST /api/dispense ------------------------ *)
\* a faulty gate, off by one: a request at count = max passes
FullyDispensedOffByOne(count, max) == count > max

\* line 1522: the prescription cannot be dispensed any more
FullyDispensed(count, max) == count >= max

\* a faulty increment: the count read is written back
NewDispenseCountSame(count) == count

\* line 1531
NewDispenseCount(count) == count + 1

\* line 1533: prevEventHash || lastEventHashPerTopic.get(topicID) || undefined
ChainPrev(prevIn, t) == IF prevIn # Undefined THEN prevIn ELSE lastEventHashPerTopic[t]

\* lines 1534-1557: the dispensed event, hashed and signed by the pharmacist
DispensedPayload(t, ph, prevIn, count, max, n) ==
  LET toHash == [version |-> "1", eventType |-> "dispensed", topicID |-> t,
                 signerRole |-> "pharmacist",
                 actorIdHash |-> HashIdentifier(ph), items |-> "items",
                 totals |-> "totals", paymentMethod |-> "cash",
                 prevEventHash |-> ChainPrev(prevIn, t),
                 dispenseCount |-> count, maxDispenses |-> max,
                 keyId |-> KeyId(ph), nonce |-> n]
      signed == [contentHash |-> Sha256(toHash)] @@ toHash
  IN [signature |-> signPayload(signed, ph)] @@ signed

\* the prevEventHash values a request body can carry: none, or the hash of
\* an event the client saw earlier (the first one handed to the ledger)
BodyPrevHashes ==
  {Undefined} \cup {Sha256(submitted[i].event) : i \in 1..Len(submitted) \cap {1}}

\* a faulty rejection that frees the lock on its way out, as the other exit
\* paths do
DispenseConflictReleases(t, ph) ==
  /\ requests < MaxRequests
  /\ ~CanAcquire(t, ph)
  /\ requests' = requests + 1
  /\ dispenseLocks' = Released(t)
  /\ lastResp' = [op |-> "dispense", code |-> 409, topicID |-> t,
                  error |-> "CONCURRENT_DISPENSE_ATTEMPT"]
  /\ UNCHANGED <<elapsed, nonceCtr, prescriptionToTopic, issued,
                 usedNonces, messageQueue, submitted,
                 ledgerStatus, mirrorStatus, issuing, dispensing, paying,
                 overlapped, cancelled, appliedTypes, acceptedNonces>>
  /\ UNCHANGED storeVars
  /\ UNCHANGED dispenseHist

\* lines 1504-1510: the lock is held by another owner, 409
DispenseConflict(t, ph) ==
  /\ requests < MaxRequests
  /\ ~CanAcquire(t, ph)
  /\ requests' = requests + 1
  /\ lastResp' = [op |-> "dispense", code |-> 409, topicID |-> t,
                  error |-> "CONCURRENT_DISPENSE_ATTEMPT"]
  /\ UNCHANGED <<elapsed, nonceCtr, prescriptionToTopic, issued,
                 usedNonces, messageQueue, dispenseLocks, submitted,
                 ledgerStatus, mirrorStatus, issuing, dispensing, paying,
                 overlapped, cancelled, appliedTypes, acceptedNonces>>
  /\ UNCHANGED storeVars
  /\ UNCHANGED dispenseHist

\* a faulty rejection that returns without releasing the lock it acquired
DispenseRejectKeepsLock(t, ph) ==
  /\ requests < MaxRequests
  /\ CanAcquire(t, ph)
  /\ FullyDispensed(StoredDispenseCount(t), StoredMaxDispenses(t))
  /\ requests' = requests + 1
  /\ dispenseLocks' = Acquired(t, ph)
  /\ lastResp' = [op |-> "dispense", code |-> 400, topicID |-> t,
                  message |-> <<"Prescription fully dispensed",
                                StoredDispenseCount(t), StoredMaxDispenses(t)>>]
  /\ UNCHANGED <<elapsed, nonceCtr, prescriptionToTopic, issued,
                 usedNonces, messageQueue, submitted, ledgerStatus,
                 mirrorStatus, issuing, dispensing, paying, overlapped,
                 cancelled, appliedTypes, acceptedNonces>>
  /\ UNCHANGED storeVars
  /\ UNCHANGED dispenseHist

\* lines 1504, 1516-1528: the lock is acquired, the count is read, the
\* prescription is fully dispensed: the lock is released, 400
DispenseReject(t, ph) ==
  /\ requests < MaxRequests
  /\ CanAcquire(t, ph)
  /\ FullyDispensed(StoredDispenseCount(t), StoredMaxDispenses(t))
  /\ requests' = requests + 1
  /\ dispenseLocks' = Released(t)
  /\ lastResp' = [op |-> "dispense", code |-> 400, topicID |-> t,
                  message |-> <<"Prescription fully dispensed",
                                StoredDispenseCount(t), StoredMaxDispenses(t)>>]
  /\ UNCHANGED <<elapsed, nonceCtr, prescriptionToTopic, issued,
                 usedNonces, messageQueue, submitted, ledgerStatus,
                 mirrorStatus, issuing, dispensing, paying, overlapped,
                 cancelled, appliedTypes, acceptedNonces>>
  /\ UNCHANGED storeVars
  /\ UNCHANGED dispenseHist

\* lines 1504, 1512-1557, 1624-1628: the lock is acquired, the gate is
\* passed and building or signing the event throws: the catch releases the
\* lock, 500
DispenseThrow(t, ph) ==
  /\ requests < MaxRequests
  /\ CanAcquire(t, ph)
  /\ ~FullyDispensed(StoredDispenseCount(t), StoredMaxDispenses(t))
  /\ requests' = requests + 1
  /\ dispenseLocks' = Released(t)
  /\ lastResp' = [op |-> "dispense", code |-> 500, topicID |-> t]
  /\ UNCHANGED <<elapsed, nonceCtr, prescriptionToTopic, issued,
                 usedNonces, messageQueue, submitted, ledgerStatus,
                 mirrorStatus, issuing, dispensing, paying, overlapped,
                 cancelled, appliedTypes, acceptedNonces>>
  /\ UNCHANGED storeVars
  /\ UNCHANGED dispenseHist

\* lines 1504, 1516-1574: the lock is acquired, the count is read, the event
\* is built against the head, the sensitive data stored, the event queued
\* and handed to the ledger
DispenseStart(t, ph, prevIn) ==
  LET count == StoredDispenseCount(t)
      max   == StoredMaxDispenses(t)
      n     == nonceCtr + 1
      pay   == DispensedPayload(t, ph, prevIn, NewDispenseCount(count), max, n)
      old   == sensitiveData[t]
      Dispensed == [dispensedItems |-> "items", dispensedTotals |-> "totals",
                    paymentMethod |-> "cash"]
  IN
  /\ requests < MaxRequests
  /\ CanAcquire(t, ph)
  /\ ~FullyDispensed(count, max)
  /\ prevIn \in BodyPrevHashes
  /\ requests' = requests + 1
  /\ nonceCtr' = n
  /\ dispenseLocks' = Acquired(t, ph)
  /\ sensitiveData' = [sensitiveData EXCEPT ![t] =
        IF old = NoData THEN Dispensed ELSE Dispensed @@ old]
  /\ messageQueue' = Append(messageQueue, [topicID |-> t, eventType |-> "dispensed"])
  /\ submitted' = Append(submitted, [topicID |-> t, event |-> pay])
  /\ dispensing' = dispensing \cup
        {[topicID |-> t, pharmacist |-> ph, obj |-> inMemoryStore[t],
          newDispenseCount |-> NewDispenseCount(count), maxDispenses |-> max,
          payload |-> pay]}
  /\ overlapped' = IF \E d \in dispensing : d.obj = inMemoryStore[t]
                    THEN overlapped \cup {inMemoryStore[t]} ELSE overlapped
  /\ lastResp' = NoResp
  /\ UNCHANGED <<elapsed, heap, inMemoryStore, prescriptionToTopic,
                 issued, lastEventHashPerTopic, lastEventTypePerTopic,
                 usedNonces, hcsEventLog, ledgerStatus, mirrorStatus, issuing,
                 paying, cancelled, appliedTypes, acceptedNonces>>
  /\ UNCHANGED dispenseHist

\* lines 1575-1623: the ledger answered or threw (the error is logged); the
\* head, the count, the status and the audit log are updated, the lock is
\* released and the request answered
DispenseFinish(d, ok) ==
  LET t  == d.topicID
      h1 == IF d.obj = NoObj THEN heap
            ELSE [heap EXCEPT ![d.obj].payload =
                    [lastDispenseDate |-> "date"] @@
                    [@ EXCEPT !.dispenseCount = d.newDispenseCount]]
      \* inMemoryStore.set(topicID, prescriptionData), then setTopicStatus
      h2 == IF d.obj = NoObj THEN SetTopicStatus(h1, t, "dispensed")
            ELSE [h1 EXCEPT ![d.obj].status = "dispensed"]
  IN
  /\ d \in dispensing
  /\ dispensing' = dispensing \ {d}
  /\ lastEventHashPerTopic' = [lastEventHashPerTopic EXCEPT ![t] = Sha256(d.payload)]
  /\ lastEventTypePerTopic' = [lastEventTypePerTopic EXCEPT ![t] = "dispensed"]
  /\ heap' = h2
  /\ inMemoryStore' = IF d.obj = NoObj THEN inMemoryStore
                      ELSE [inMemoryStore EXCEPT ![t] = d.obj]
  /\ hcsEventLog' = Append(hcsEventLog,
        [topicID |-> t, eventType |-> "dispensed",
         dispenseCount |-> d.newDispenseCount, maxDispenses |-> d.maxDispenses])
  /\ dispenseLocks' = Released(t)
  /\ ledgerStatus' = IF ok THEN [ledgerStatus EXCEPT ![t] = "dispensed"]
                     ELSE ledgerStatus
  /\ lastResp' = [op |-> "dispense", code |-> 200, topicID |-> t]
  /\ dispSucc' = IF d.obj = NoObj THEN dispSucc
                  ELSE [dispSucc EXCEPT ![d.obj] = @ + 1]
  /\ commits' = commits \cup {<<d.obj, d.newDispenseCount>>}
  /\ doubleCommit' = (doubleCommit \/
                      (d.obj # NoObj /\ <<d.obj, d.newDispenseCount>> \in commits))
  /\ appliedTypes' = [appliedTypes EXCEPT ![t] = @ \cup {"dispensed"}]
  /\ UNCHANGED <<elapsed, requests, nonceCtr, prescriptionToTopic,
                 issued, usedNonces, sensitiveData, messageQueue, submitted,
                 mirrorStatus, issuing, paying, overlapped, cancelled,
                 acceptedNonces>>

(* -------------------------- POST /api/payments ------------------------ *)
\* prescriptionToTopic.get(prescriptionId); 0 stands for an id without mapping
Mapped(p) == p \in 1..Len(prescriptionToTopic)

\* line 421: the statuses a payment is allowed in
PayableStatus(status) == status \in {"issued", "dispensed", "paid"}

\* lines 454-473: the paid event, hashed and signed by the pharmacist
PaidPayload(t, ph, n) ==
  LET toHash == [version |-> "1", eventType |-> "paid", topicID |-> t,
                 signerRole |-> "pharmacist",
                 actorIdHash |-> HashIdentifier(ph), amountMAD |-> 100,
                 method |-> "cash",
                 prevEventHash |-> lastEventHashPerTopic[t],
                 keyId |-> KeyId(ph), nonce |-> n]
      signed == [contentHash |-> Sha256(toHash)] @@ toHash
  IN [signature |-> signPayload(signed, ph)] @@ signed

\* lines 387-432: the eligibility check against the mirror's status and the
\* stored counts; an eligible payment waits for its timer
PayCheck(p, ph, mirrorOk) ==
  LET t      == prescriptionToTopic[p]
      id     == requests + 1
      wait   == [id |-> id, prescriptionId |-> p, pharmacist |-> ph,
                 pc |-> "timer", msg |-> Undefined]
  IN
  /\ requests < MaxRequests
  /\ p \in 0..Len(prescriptionToTopic)
  /\ requests' = id
  /\ IF ~Mapped(p)
       THEN paying' = paying \cup {wait} /\ lastResp' = NoResp
     ELSE IF ~mirrorOk
       THEN /\ paying' = paying
            /\ lastResp' = [op |-> "payment", code |-> 500, topicID |-> t]
     ELSE IF FullyDispensed(StoredDispenseCount(t), StoredMaxDispenses(t))
       THEN /\ paying' = paying
            /\ lastResp' = [op |-> "payment", code |-> 409, topicID |-> t,
                            error |-> "fully dispensed"]
     ELSE IF ~PayableStatus(mirrorStatus[t])
       THEN /\ paying' = paying
            /\ lastResp' = [op |-> "payment", code |-> 409, topicID |-> t,
                            error |-> "status"]
     ELSE paying' = paying \cup {wait} /\ lastResp' = NoResp
  /\ UNCHANGED <<elapsed, nonceCtr, prescriptionToTopic, issued,
                 usedNonces, messageQueue, dispenseLocks, submitted,
                 ledgerStatus, mirrorStatus, issuing, dispensing, overlapped,
                 cancelled, appliedTypes, acceptedNonces>>
  /\ UNCHANGED storeVars
  /\ UNCHANGED dispenseHist

\* lines 436-480: the timer fires; with a mapped prescription and a
\* pharmacist id the paid event is built against the head and handed to the
\* ledger, otherwise the request is answered at once
PayEmit(r) ==
  LET t == prescriptionToTopic[r.prescriptionId]
      n == nonceCtr + 1
  IN
  /\ r \in paying
  /\ r.pc = "timer"
  /\ IF Mapped(r.prescriptionId) /\ r.pharmacist # ""
       THEN /\ nonceCtr' = n
            /\ submitted' = Append(submitted,
                 [topicID |-> t, event |-> PaidPayload(t, r.pharmacist, n)])
            /\ paying' = (paying \ {r}) \cup
                 {[r EXCEPT !.pc = "submit", !.msg = PaidPayload(t, r.pharmacist, n)]}
            /\ lastResp' = NoResp
       ELSE /\ UNCHANGED <<nonceCtr, submitted>>
            /\ paying' = paying \ {r}
            /\ lastResp' = [op |-> "payment", code |-> 200, topicID |-> NoType]
  /\ UNCHANGED <<elapsed, requests, prescriptionToTopic, issued,
                 usedNonces, messageQueue, dispenseLocks, ledgerStatus,
                 mirrorStatus, issuing, dispensing, overlapped, cancelled,
                 appliedTypes, acceptedNonces>>
  /\ UNCHANGED storeVars
  /\ UNCHANGED dispenseHist

\* a faulty completion that updates the store although the submission threw
PayFinishAppliesOnThrow(r, ok) ==
  LET t == prescriptionToTopic[r.prescriptionId]
  IN
  /\ r \in paying
  /\ r.pc = "submit"
  /\ paying' = paying \ {r}
  /\ IF ok \/ ~ok
       THEN /\ lastEventHashPerTopic' = [lastEventHashPerTopic EXCEPT ![t] = Sha256(r.msg)]
            /\ lastEventTypePerTopic' = [lastEventTypePerTopic EXCEPT ![t] = "paid"]
            /\ heap' = SetTopicStatus(heap, t, "paid")
            /\ hcsEventLog' = Append(hcsEventLog,
                 [topicID |-> t, eventType |-> "paid",
                  dispenseCount |-> StoredDispenseCount(t),
                  maxDispenses |-> StoredMaxDispenses(t)])
            /\ ledgerStatus' = [ledgerStatus EXCEPT ![t] = "paid"]
            /\ appliedTypes' = [appliedTypes EXCEPT ![t] = @ \cup {"paid"}]
       ELSE UNCHANGED <<lastEventHashPerTopic, lastEventTypePerTopic, heap,
                        hcsEventLog, ledgerStatus, appliedTypes>>
  /\ lastResp' = [op |-> "payment", code |-> 200, topicID |-> t,
                  ledgerOk |-> ok]
  /\ UNCHANGED <<elapsed, requests, nonceCtr, inMemoryStore,
                 prescriptionToTopic, issued, usedNonces, sensitiveData,
                 messageQueue, dispenseLocks, submitted, mirrorStatus, issuing,
                 dispensing, overlapped, cancelled, acceptedNonces>>
  /\ UNCHANGED dispenseHist

\* lines 480-510: the ledger answered, and the head, the type, the status
\* and the audit log are updated; or it threw, and nothing is; the request
\* is answered with success either way
PayFinish(r, ok) ==
  LET t == prescriptionToTopic[r.prescriptionId]
  IN
  /\ r \in paying
  /\ r.pc = "submit"
  /\ paying' = paying \ {r}
  /\ IF ok
       THEN /\ lastEventHashPerTopic' = [lastEventHashPerTopic EXCEPT ![t] = Sha256(r.msg)]
            /\ lastEventTypePerTopic' = [lastEventTypePerTopic EXCEPT ![t] = "paid"]
            /\ heap' = SetTopicStatus(heap, t, "paid")
            /\ hcsEventLog' = Append(hcsEventLog,
                 [topicID |-> t, eventType |-> "paid",
                  dispenseCount |-> StoredDispenseCount(t),
                  maxDispenses |-> StoredMaxDispenses(t)])
            /\ ledgerStatus' = [ledgerStatus EXCEPT ![t] = "paid"]
            /\ appliedTypes' = [appliedTypes EXCEPT ![t] = @ \cup {"paid"}]
       ELSE UNCHANGED <<lastEventHashPerTopic, lastEventTypePerTopic, heap,
                        hcsEventLog, ledgerStatus, appliedTypes>>
  /\ lastResp' = [op |-> "payment", code |-> 200, topicID |-> t,
                  ledgerOk |-> ok]
  /\ UNCHANGED <<elapsed, requests, nonceCtr, inMemoryStore,
                 prescriptionToTopic, issued, usedNonces, sensitiveData,
                 messageQueue, dispenseLocks, submitted, mirrorStatus, issuing,
                 dispensing, overlapped, cancelled, acceptedNonces>>
  /\ UNCHANGED dispenseHist

(* ----------------------- POST /api/payments/batch --------------------- *)
\* the longest prescriptionIds array a batch request carries
MaxBatch == 2

\* the prescriptionIds arrays a batch request can carry; 0 stands for an id
\* without mapping
BatchIds == UNION {[1..n -> 0..Len(prescriptionToTopic)] : n \in 1..MaxBatch}

\* lines 532-550: the eligibility of one listed prescription
BatchCheckOf(p) ==
  IF ~Mapped(p) THEN "Not found"
  ELSE IF FullyDispensed(StoredDispenseCount(prescriptionToTopic[p]),
                         StoredMaxDispenses(prescriptionToTopic[p]))
    THEN "Fully dispensed"
  ELSE IF mirrorStatus[prescriptionToTopic[p]] \notin {"issued", "dispensed"}
    THEN "Invalid status"
  ELSE "eligible"

\* a faulty decision that lets a batch through when some prescription of it
\* is eligible
BatchAcceptsSome(checks) == \E i \in 1..Len(checks) : checks[i] = "eligible"

\* lines 554-555: no prescription of the batch is ineligible
BatchAccepts(checks) == \A i \in 1..Len(checks) : checks[i] = "eligible"

\* lines 572-590: the paid event of a batch, signed with the key of
\* ensureKeyPair() and carrying no contentHash
BatchPaidPayload(p, ph, n, prevHash, prevType) ==
  LET base == [version |-> "1", type |-> "paid", prescriptionId |-> p,
               topicID |-> prescriptionToTopic[p],
               pharmacistNationalId |-> ph, nonce |-> n,
               prevEventHash |-> prevHash, prevEventType |-> prevType]
  IN [sig |-> signPayload(base, NoType)] @@ base

\* lines 523-525: a request without a non-empty prescriptionIds array
BatchRejectEmpty ==
  /\ requests < MaxRequests
  /\ requests' = requests + 1
  /\ lastResp' = [op |-> "batch", code |-> 400, ids |-> <<>>, checks |-> <<>>]
  /\ UNCHANGED <<elapsed, nonceCtr, prescriptionToTopic, issued,
                 usedNonces, messageQueue, dispenseLocks, submitted,
                 ledgerStatus, mirrorStatus, issuing, dispensing, paying,
                 overlapped, cancelled, appliedTypes, acceptedNonces>>
  /\ UNCHANGED storeVars
  /\ UNCHANGED dispenseHist

\* lines 520-531: a batch request arrives and starts on its checks
BatchStart(ids, ph) ==
  /\ requests < MaxRequests
  /\ ids \in BatchIds
  /\ requests' = requests + 1
  /\ paying' = paying \cup
       {[id |-> requests + 1, pc |-> "batchCheck", ids |-> ids,
         pharmacist |-> ph, checks |-> <<>>, k |-> 0, msg |-> Undefined]}
  /\ lastResp' = NoResp
  /\ UNCHANGED <<elapsed, nonceCtr, prescriptionToTopic, issued,
                 usedNonces, messageQueue, dispenseLocks, submitted,
                 ledgerStatus, mirrorStatus, issuing, dispensing, overlapped,
                 cancelled, appliedTypes, acceptedNonces>>
  /\ UNCHANGED storeVars
  /\ UNCHANGED dispenseHist

\* lines 531-561: the next prescription of the list is checked, after the
\* mirror answered for it when it is mapped; a throw of the mirror ends the
\* request with 500; after the last check the batch is refused with 409 or
\* waits for its timer
BatchCheck(r, mirrorOk) ==
  LET p      == r.ids[Len(r.checks) + 1]
      checks == Append(r.checks, BatchCheckOf(p))
  IN
  /\ r \in paying
  /\ r.pc = "batchCheck"
  /\ IF Mapped(p) /\ ~mirrorOk
       THEN /\ paying' = paying \ {r}
            /\ lastResp' = [op |-> "batch", code |-> 500, ids |-> r.ids,
                            checks |-> r.checks]
     ELSE IF Len(checks) < Len(r.ids)
       THEN /\ paying' = (paying \ {r}) \cup {[r EXCEPT !.checks = checks]}
            /\ lastResp' = NoResp
     ELSE IF ~BatchAccepts(checks)
       THEN /\ paying' = paying \ {r}
            /\ lastResp' = [op |-> "batch", code |-> 409, ids |-> r.ids,
                            checks |-> checks]
     ELSE /\ paying' = (paying \ {r}) \cup
               {[r EXCEPT !.checks = checks, !.pc = "batchTimer"]}
          /\ lastResp' = NoResp
  /\ UNCHANGED <<elapsed, requests, nonceCtr, prescriptionToTopic, issued,
                 usedNonces, messageQueue, dispenseLocks, submitted,
                 ledgerStatus, mirrorStatus, issuing, dispensing, overlapped,
                 cancelled, appliedTypes, acceptedNonces>>
  /\ UNCHANGED storeVars
  /\ UNCHANGED dispenseHist

\* lines 564-594: the timer fires; with a pharmacist id the paid event of the
\* first prescription is built against the head and handed to the ledger,
\* without one every prescription is skipped and the request answered
BatchEmit(r) ==
  LET p == r.ids[1]
      n == nonceCtr + 1
      msg == BatchPaidPayload(p, r.pharmacist, n,
               lastEventHashPerTopic[prescriptionToTopic[p]],
               lastEventTypePerTopic[prescriptionToTopic[p]])
  IN
  /\ r \in paying
  /\ r.pc = "batchTimer"
  /\ IF r.pharmacist # ""
       THEN /\ nonceCtr' = n
            /\ submitted' = Append(submitted,
                 [topicID |-> prescriptionToTopic[p], event |-> msg])
            /\ paying' = (paying \ {r}) \cup
                 {[r EXCEPT !.pc = "batchSubmit", !.k = 1, !.msg = msg]}
            /\ lastResp' = NoResp
       ELSE /\ UNCHANGED <<nonceCtr, submitted>>
            /\ paying' = paying \ {r}
            /\ lastResp' = [op |-> "batch", code |-> 200, ids |-> r.ids,
                            checks |-> r.checks]
  /\ UNCHANGED <<elapsed, requests, prescriptionToTopic, issued,
                 usedNonces, messageQueue, dispenseLocks, ledgerStatus,
                 mirrorStatus, issuing, dispensing, overlapped, cancelled,
                 appliedTypes, acceptedNonces>>
  /\ UNCHANGED storeVars
  /\ UNCHANGED dispenseHist

\* lines 594-616: the ledger answered for the current prescription, and its
\* head, type and status are updated; or it threw, and the error is logged;
\* then the event of the next prescription is built and handed to the
\* ledger, or the request is answered after the last one
BatchFinish(r, ok) ==
  LET t    == prescriptionToTopic[r.ids[r.k]]
      hash == IF ok THEN [lastEventHashPerTopic EXCEPT ![t] = Sha256(r.msg)]
              ELSE lastEventHashPerTopic
      type == IF ok THEN [lastEventTypePerTopic EXCEPT ![t] = "paid"]
              ELSE lastEventTypePerTopic
      next == r.ids[r.k + 1]
      n    == nonceCtr + 1
      msg  == BatchPaidPayload(next, r.pharmacist, n,
                hash[prescriptionToTopic[next]], type[prescriptionToTopic[next]])
  IN
  /\ r \in paying
  /\ r.pc = "batchSubmit"
  /\ lastEventHashPerTopic' = hash
  /\ lastEventTypePerTopic' = type
  /\ heap' = IF ok THEN SetTopicStatus(heap, t, "paid") ELSE heap
  /\ ledgerStatus' = IF ok THEN [ledgerStatus EXCEPT ![t] = "paid"]
                     ELSE ledgerStatus
  /\ appliedTypes' = IF ok THEN [appliedTypes EXCEPT ![t] = @ \cup {"paid"}]
                     ELSE appliedTypes
  /\ IF r.k < Len(r.ids)
       THEN /\ nonceCtr' = n
            /\ submitted' = Append(submitted,
                 [topicID |-> prescriptionToTopic[next], event |-> msg])
            /\ paying' = (paying \ {r}) \cup
                 {[r EXCEPT !.k = r.k + 1, !.msg = msg]}
            /\ lastResp' = NoResp
       ELSE /\ UNCHANGED <<nonceCtr, submitted>>
            /\ paying' = paying \ {r}
            /\ lastResp' = [op |-> "batch", code |-> 200, ids |-> r.ids,
                            checks |-> r.checks]
  /\ UNCHANGED <<elapsed, requests, inMemoryStore, prescriptionToTopic,
                 issued, usedNonces, hcsEventLog, sensitiveData, messageQueue,
                 dispenseLocks, mirrorStatus, issuing, dispensing, overlapped,
                 cancelled, acceptedNonces>>
  /\ UNCHANGED dispenseHist

(* --------------------------- POST /api/verify ------------------------- *)
\* a string field of a payload, undefined when absent
StrField(r, f) == IF f \in DOMAIN r THEN r[f] ELSE NoType

\* payload.nonce, the field the replay guard reads (0 when absent)
GuardNonce(payload) == OrNum(NumField(payload, "nonce"), 0)

\* the nonce a payload carries, in either form (0 when absent)
CarriedNonce(payload) ==
  OrNum(NumField(payload, "nonce"), OrNum(NumField(payload, "n"), 0))

\* the validUntil a payload carries, in either form
CarriedValidUntil(payload) ==
  OrNum(NumField(payload, "u"), NumField(payload, "validUntil"))

\* payload.u, the field the expiration check reads (0 when absent)
GuardValidUntil(payload) == OrNum(NumField(payload, "u"), 0)

\* lastEventTypePerTopic.get(payload.topicID)
LastTypeOf(tp) == IF tp \in Topics THEN lastEventTypePerTopic[tp] ELSE NoType

\* lines 984-1116: the checks of a verification, in order, and the first
\* that rejects
VerifyOutcome(payload) ==
  LET tp   == StrField(payload, "topicID")
      cur  == IF tp \in Topics THEN StoredDispenseCount(tp) ELSE 0
      max  == OrNum(IF tp \in Topics THEN StoredMaxRaw(tp) ELSE -1,
                OrNum(NumField(payload, "md"),
                  OrNum(NumField(payload, "maxDispenses"), 1)))
      dc   == IF "dispenseCount" \in DOMAIN payload THEN payload.dispenseCount
              ELSE NumField(payload, "dc")
      md   == IF "maxDispenses" \in DOMAIN payload THEN payload.maxDispenses
              ELSE NumField(payload, "md")
  IN IF LastTypeOf(tp) \in {"dispensed", "paid"} /\ cur >= max THEN "fullyDispensed409"
     ELSE IF StrField(payload, "v") \notin {NoType, "1.0"} THEN "unsupportedVersion"
     ELSE IF GuardValidUntil(payload) # 0 /\ PastValidUntil(GuardValidUntil(payload))
          THEN "expired"
     ELSE IF dc # -1 /\ md # -1 /\ dc >= md THEN "fullyDispensed400"
     ELSE IF GuardNonce(payload) # 0 /\ GuardNonce(payload) \in usedNonces THEN "duplicateNonce"
     ELSE "valid"

\* lines 1067-1080: the short-form structure the signature is checked over
SignedStructure(payload) ==
  LET Str(a, b) == IF StrField(payload, a) # NoType THEN payload[a] ELSE StrField(payload, b)
      Num(a, b) == IF NumField(payload, a) # -1 THEN payload[a] ELSE NumField(payload, b)
  IN [v |-> IF Str("v", "version") # NoType THEN Str("v", "version") ELSE "1.0",
      t |-> Str("t", "topicID"),
      h |-> Str("h", "hashedPatientId"),
      d |-> IF "d" \in DOMAIN payload THEN payload.d
            ELSE IF "drugIds" \in DOMAIN payload THEN payload.drugIds[1] ELSE NoType,
      q |-> Str("q", "quantity"),
      i |-> IF "i" \in DOMAIN payload THEN payload.i
            ELSE IF "instructionsList" \in DOMAIN payload
                 THEN payload.instructionsList[1] ELSE NoType,
      u |-> OrNum(Num("u", "validUntil"), -1),
      n |-> OrNum(Num("n", "nonce"), -1),
      g |-> Str("g", "geoTag"),
      p |-> IF "p" \in DOMAIN payload THEN payload.p ELSE Null,
      dc |-> IF Num("dc", "dispenseCount") = -1 THEN 0 ELSE Num("dc", "dispenseCount"),
      md |-> IF Num("md", "maxDispenses") = -1 THEN 1 ELSE Num("md", "maxDispenses")]

\* verifySignature(payload, signature, actorId)
verifySignature(payload, signature, actorId) ==
  signature = signPayload(payload, actorId)

\* a faulty signature check that leaves signatureValid at its initial true
\* when the payload carries no signature
SignatureStatusDefaultsTrue(payload, doctorId) ==
  IF doctorId = "" THEN "null"
  ELSE IF "signature" \in DOMAIN payload
    THEN (IF verifySignature(SignedStructure(payload), payload.signature, doctorId)
          THEN "true" ELSE "false")
  ELSE IF "s" \in DOMAIN payload
    THEN (IF verifySignature(SignedStructure(payload), payload.s, doctorId)
          THEN "true" ELSE "false")
  ELSE "true"

\* lines 1058-1099: signatureValid as the response reports it
SignatureStatus(payload, doctorId) ==
  IF doctorId = "" THEN "null"
  ELSE IF "signature" \in DOMAIN payload
    THEN (IF verifySignature(SignedStructure(payload), payload.signature, doctorId)
          THEN "true" ELSE "false")
  ELSE IF "s" \in DOMAIN payload
    THEN (IF verifySignature(SignedStructure(payload), payload.s, doctorId)
          THEN "true" ELSE "false")
  ELSE "false"

\* the payloads a verify request can act on: the stored one, fetched by
\* topicID ("topic"); the QR payload of an issuance ("qr"); the long form of
\* an issuance, naming any channel ("long")
VerifyInputs ==
  {[mode |-> "topic", topicID |-> t, payload |-> heap[inMemoryStore[t]].payload]
      : t \in {x \in Topics : inMemoryStore[x] # NoObj}}
  \cup {[mode |-> "qr", topicID |-> issued[i].topicID, payload |-> issued[i].qr]
      : i \in 1..Len(issued)}
  \cup {[mode |-> "long", topicID |-> t, payload |-> [issued[i].payload EXCEPT !.topicID = t]]
      : i \in 1..Len(issued), t \in Topics}

\* lines 946-974: no payload in the body and none stored for the topicID
VerifyNotFound(t) ==
  /\ requests < MaxRequests
  /\ inMemoryStore[t] = NoObj
  /\ requests' = requests + 1
  /\ lastResp' = [op |-> "verify", code |-> 400, topicID |-> t, mode |-> "topic",
                  outcome |-> "notFound", nonce |-> 0, expired |-> FALSE]
  /\ UNCHANGED <<elapsed, nonceCtr, prescriptionToTopic, issued,
                 usedNonces, messageQueue, dispenseLocks, submitted,
                 ledgerStatus, mirrorStatus, issuing, dispensing, paying,
                 overlapped, cancelled, appliedTypes, acceptedNonces>>
  /\ UNCHANGED storeVars
  /\ UNCHANGED dispenseHist

\* what the fraud check of a verify request comes to, for the geo location
\* the request carries: no location, so no check; checkFraud answers not
\* suspicious; it answers suspicious; it throws
FraudChecks == {"skipped", "normal", "suspicious", "throws"}

\* a faulty fraud check that rejects a suspicious verification
VerifyOutcomeBlocksFraud(payload, fraud) ==
  IF fraud = "suspicious" THEN "fraudSuspected" ELSE VerifyOutcome(payload)

\* lines 984-1143: the outcome of the checks; the fraud check rejects nothing
\* and its exception is caught and logged
CheckedOutcome(payload, fraud) == VerifyOutcome(payload)

\* lines 1119-1143: the alert is set when both geotags are there and
\* checkFraud flags the pair; it stays null when the check is skipped,
\* answers normal or throws
FraudAlert(payload, fraud) ==
  /\ ("geoTag" \in DOMAIN payload \/ "g" \in DOMAIN payload)
  /\ fraud = "suspicious"

\* lines 1198-1209: the audit-log entry of an accepted verification
VerifiedLogEntry(payload, fraudAlert) ==
  [topicID |-> StrField(payload, "topicID"), eventType |-> "verified",
   dispenseCount |-> OrNum(NumField(payload, "dispenseCount"), 0),
   maxDispenses |-> OrNum(NumField(payload, "maxDispenses"),
                      OrNum(NumField(payload, "md"), 1)),
   fraudAlert |-> fraudAlert]

\* a faulty handler whose replay guard consumes the nonce before the other
\* checks reject
VerifyConsumesFirst(in, doctorId, fraud) ==
  LET payload == in.payload
      outcome == CheckedOutcome(payload, fraud)
  IN
  /\ requests < MaxRequests
  /\ in \in VerifyInputs
  /\ requests' = requests + 1
  /\ lastResp' = [op |-> "verify",
                  code |-> CASE outcome = "valid" -> 200
                             [] outcome \in {"fullyDispensed409", "duplicateNonce"} -> 409
                             [] OTHER -> 400,
                  topicID |-> in.topicID, mode |-> in.mode, outcome |-> outcome,
                  doctorNationalId |-> doctorId,
                  nonce |-> CarriedNonce(payload),
                  expired |-> PastValidUntil(CarriedValidUntil(payload)),
                  signatureValid |-> SignatureStatus(payload, doctorId),
                  fraud |-> fraud,
                  fraudAlert |-> FraudAlert(payload, fraud)]
  /\ IF outcome = "valid"
       THEN /\ usedNonces' = IF GuardNonce(payload) # 0
                             THEN usedNonces \cup {GuardNonce(payload)} ELSE usedNonces
            /\ hcsEventLog' = Append(hcsEventLog,
                 VerifiedLogEntry(payload, FraudAlert(payload, fraud)))
            /\ acceptedNonces' = acceptedNonces \cup {CarriedNonce(payload)}
            /\ appliedTypes' = [appliedTypes EXCEPT ![in.topicID] = @ \cup {"verified"}]
       ELSE /\ usedNonces' = IF GuardNonce(payload) # 0
                             THEN usedNonces \cup {GuardNonce(payload)} ELSE usedNonces
            /\ UNCHANGED <<hcsEventLog, acceptedNonces, appliedTypes>>
  /\ UNCHANGED <<elapsed, nonceCtr, heap, inMemoryStore,
                 prescriptionToTopic, issued, lastEventHashPerTopic,
                 lastEventTypePerTopic, sensitiveData, messageQueue,
                 dispenseLocks, submitted, ledgerStatus, mirrorStatus, issuing,
                 dispensing, paying, overlapped, cancelled>>
  /\ UNCHANGED dispenseHist

\* lines 976-1216. Building the verified event throws at line 1149 (the name
\* ok is not defined) and the throw is swallowed at line 1194: no event is
\* built or handed to the ledger and the head and the type stay; the audit
\* log entry of lines 1198-1209 is appended all the same
Verify(in, doctorId, fraud) ==
  LET payload == in.payload
      outcome == CheckedOutcome(payload, fraud)
  IN
  /\ requests < MaxRequests
  /\ in \in VerifyInputs
  /\ requests' = requests + 1
  /\ lastResp' = [op |-> "verify",
                  code |-> CASE outcome = "valid" -> 200
                             [] outcome \in {"fullyDispensed409", "duplicateNonce"} -> 409
                             [] OTHER -> 400,
                  topicID |-> in.topicID, mode |-> in.mode, outcome |-> outcome,
                  doctorNationalId |-> doctorId,
                  nonce |-> CarriedNonce(payload),
                  expired |-> PastValidUntil(CarriedValidUntil(payload)),
                  signatureValid |-> SignatureStatus(payload, doctorId),
                  fraud |-> fraud,
                  fraudAlert |-> FraudAlert(payload, fraud)]
  /\ IF outcome = "valid"
       THEN /\ usedNonces' = IF GuardNonce(payload) # 0
                             THEN usedNonces \cup {GuardNonce(payload)} ELSE usedNonces
            /\ hcsEventLog' = Append(hcsEventLog,
                 VerifiedLogEntry(payload, FraudAlert(payload, fraud)))
            /\ acceptedNonces' = acceptedNonces \cup {CarriedNonce(payload)}
            /\ appliedTypes' = [appliedTypes EXCEPT ![in.topicID] = @ \cup {"verified"}]
       ELSE UNCHANGED <<usedNonces, hcsEventLog, acceptedNonces, appliedTypes>>
  /\ UNCHANGED <<elapsed, nonceCtr, heap, inMemoryStore,
                 prescriptionToTopic, issued, lastEventHashPerTopic,
                 lastEventTypePerTopic, sensitiveData, messageQueue,
                 dispenseLocks, submitted, ledgerStatus, mirrorStatus, issuing,
                 dispensing, paying, overlapped, cancelled>>
  /\ UNCHANGED dispenseHist

(* --------------------- POST /api/cancel, /api/amend ------------------- *)
\* lines 1463-1483 and 1746-1767: a message of the given type is handed to
\* the ledger (to the audit topic when the prescription has no channel); no
\* map of the store is touched; 200 when the submission succeeded, else 500
Annotate(type, p, ok) ==
  LET t == prescriptionToTopic[p]
  IN
  /\ requests < MaxRequests
  /\ p \in 0..Len(prescriptionToTopic)
  /\ requests' = requests + 1
  /\ IF Mapped(p)
       THEN /\ submitted' = Append(submitted,
                 [topicID |-> t,
                  event |-> [type |-> type, topicID |-> t, prescriptionId |-> p,
                             refs |-> "reason"]])
            /\ ledgerStatus' = IF ok /\ type = "cancelled"
                               THEN [ledgerStatus EXCEPT ![t] = "cancelled"]
                               ELSE ledgerStatus
            /\ cancelled' = IF ok /\ type = "cancelled"
                            THEN cancelled \cup {t} ELSE cancelled
            /\ lastResp' = [op |-> type, code |-> IF ok THEN 200 ELSE 500,
                            topicID |-> t]
       ELSE /\ UNCHANGED <<submitted, ledgerStatus, cancelled>>
            /\ lastResp' = [op |-> type, code |-> IF ok THEN 200 ELSE 500,
                            topicID |-> NoType]
  /\ UNCHANGED <<elapsed, nonceCtr, prescriptionToTopic, issued,
                 usedNonces, messageQueue, dispenseLocks, mirrorStatus,
                 issuing, dispensing, paying, overlapped, appliedTypes,
                 acceptedNonces>>
  /\ UNCHANGED storeVars
  /\ UNCHANGED dispenseHist

\* a faulty cancellation that retracts: the channel's entry and head are
\* removed from the store
CancelRetracts(p, ok) ==
  LET t == prescriptionToTopic[p]
  IN
  /\ requests < MaxRequests
  /\ p \in 0..Len(prescriptionToTopic)
  /\ Mapped(p)
  /\ requests' = requests + 1
  /\ submitted' = Append(submitted,
        [topicID |-> t,
         event |-> [type |-> "cancelled", topicID |-> t, prescriptionId |-> p,
                    refs |-> "reason"]])
  /\ inMemoryStore' = [inMemoryStore EXCEPT ![t] = NoObj]
  /\ lastEventHashPerTopic' = [lastEventHashPerTopic EXCEPT ![t] = Undefined]
  /\ ledgerStatus' = IF ok THEN [ledgerStatus EXCEPT ![t] = "cancelled"]
                     ELSE ledgerStatus
  /\ cancelled' = IF ok THEN cancelled \cup {t} ELSE cancelled
  /\ lastResp' = [op |-> "cancelled", code |-> IF ok THEN 200 ELSE 500,
                  topicID |-> t]
  /\ UNCHANGED <<elapsed, nonceCtr, prescriptionToTopic, issued,
                 usedNonces, messageQueue, dispenseLocks, mirrorStatus,
                 issuing, dispensing, paying, overlapped, appliedTypes,
                 acceptedNonces, heap, lastEventTypePerTopic, hcsEventLog,
                 sensitiveData>>
  /\ UNCHANGED dispenseHist

\* lines 1453-1484
Cancel(p, ok) == Annotate("cancelled", p, ok)

\* a faulty amendment that records itself as the channel's status and last
\* event type
AmendSetsStatus(p, ok) ==
  LET t == prescriptionToTopic[p]
  IN
  /\ requests < MaxRequests
  /\ p \in 0..Len(prescriptionToTopic)
  /\ Mapped(p)
  /\ requests' = requests + 1
  /\ submitted' = Append(submitted,
        [topicID |-> t,
         event |-> [type |-> "amended", topicID |-> t, prescriptionId |-> p,
                    refs |-> "reason"]])
  /\ heap' = SetTopicStatus(heap, t, "amended")
  /\ lastEventTypePerTopic' = [lastEventTypePerTopic EXCEPT ![t] = "amended"]
  /\ lastResp' = [op |-> "amended", code |-> IF ok THEN 200 ELSE 500,
                  topicID |-> t]
  /\ UNCHANGED <<elapsed, nonceCtr, prescriptionToTopic, issued,
                 usedNonces, messageQueue, dispenseLocks, mirrorStatus,
                 issuing, dispensing, paying, overlapped, appliedTypes,
                 acceptedNonces, inMemoryStore, lastEventHashPerTopic,
                 hcsEventLog, sensitiveData, ledgerStatus, cancelled>>
  /\ UNCHANGED dispenseHist

\* lines 1735-1768
Amend(p, ok) == Annotate("amended", p, ok)

(* ------------------ status refresh from the ledger mirror ------------- *)
\* the status a cached entry answers with: entry.status || 'issued'
CachedStatus(t) ==
  IF inMemoryStore[t] = NoObj \/ heap[inMemoryStore[t]].status = NoType
  THEN "issued" ELSE heap[inMemoryStore[t]].status

\* what getTopicStatusFromHedera(topicID) gave the handler: the mirror's
\* status, or an exception
MirrorError == "error"
HederaStatus(t, mirrorOk) == IF mirrorOk THEN mirrorStatus[t] ELSE MirrorError

\* a faulty refresh that derives the count from the status: a channel the
\* mirror calls dispensed is taken to be fully dispensed
LookupRefreshDerivesCount(t, mirrorOk) ==
  IF mirrorOk /\ mirrorStatus[t] = "dispensed"
  THEN [SetTopicStatus(heap, t, mirrorStatus[t])
          EXCEPT ![inMemoryStore[t]].payload.dispenseCount = StoredMaxDispenses(t)]
  ELSE heap

\* a faulty refresh that never overwrites the cached status
LookupRefreshKeepsCache(t, mirrorOk) == heap

\* lines 304-314: the store after the lookup's refresh: the mirror's status
\* overwrites the cached one; a failed query is logged and changes nothing
LookupRefresh(t, mirrorOk) ==
  IF mirrorOk THEN SetTopicStatus(heap, t, mirrorStatus[t]) ELSE heap

\* GET /api/prescriptions/topic/:topicID, lines 296-338: for an indexed
\* channel the status is refreshed from the mirror and the answer is built
\* from the cache
Lookup(t, mirrorOk) ==
  /\ requests < MaxRequests
  /\ inMemoryStore[t] # NoObj
  /\ requests' = requests + 1
  /\ heap' = LookupRefresh(t, mirrorOk)
  /\ inMemoryStore' = inMemoryStore
  /\ lastResp' = [op |-> "lookup", code |-> 200, topicID |-> t,
                  hederaStatus |-> HederaStatus(t, mirrorOk),
                  dispenseCount |-> StoredDispenseCount(t)',
                  maxDispenses |-> StoredMaxDispenses(t)',
                  status |-> CachedStatus(t)']
  /\ UNCHANGED <<elapsed, nonceCtr,
                 prescriptionToTopic, issued, lastEventHashPerTopic,
                 lastEventTypePerTopic, usedNonces, hcsEventLog, sensitiveData,
                 messageQueue, dispenseLocks, submitted, ledgerStatus,
                 mirrorStatus, issuing, dispensing, paying, overlapped,
                 cancelled, appliedTypes, acceptedNonces>>
  /\ UNCHANGED dispenseHist

\* GET /api/status/topic/:topicID, lines 341-362: the mirror's status
\* overwrites the cached one and is the answer; 500 when the query fails
StatusEndpoint(t, mirrorOk) ==
  /\ requests < MaxRequests
  /\ requests' = requests + 1
  /\ heap' = IF mirrorOk THEN SetTopicStatus(heap, t, mirrorStatus[t]) ELSE heap
  /\ lastResp' = IF mirrorOk
                 THEN [op |-> "status", code |-> 200, topicID |-> t,
                       status |-> mirrorStatus[t]]
                 ELSE [op |-> "status", code |-> 500, topicID |-> t]
  /\ UNCHANGED <<elapsed, nonceCtr, inMemoryStore,
                 prescriptionToTopic, issued, lastEventHashPerTopic,
                 lastEventTypePerTopic, usedNonces, hcsEventLog, sensitiveData,
                 messageQueue, dispenseLocks, submitted, ledgerStatus,
                 mirrorStatus, issuing, dispensing, paying, overlapped,
                 cancelled, appliedTypes, acceptedNonces>>
  /\ UNCHANGED dispenseHist

\* the reconciliation job: the cached status of a tracked channel that
\* diverges from the mirror's is overwritten
Reconcile(t) ==
  /\ inMemoryStore[t] # NoObj
  /\ CachedStatus(t) # mirrorStatus[t]
  /\ heap' = SetTopicStatus(heap, t, mirrorStatus[t])
  /\ lastResp' = NoResp
  /\ UNCHANGED <<elapsed, requests, nonceCtr, inMemoryStore,
                 prescriptionToTopic, issued, lastEventHashPerTopic,
                 lastEventTypePerTopic, usedNonces, hcsEventLog, sensitiveData,
                 messageQueue, dispenseLocks, submitted, ledgerStatus,
                 mirrorStatus, issuing, dispensing, paying, overlapped, cancelled, appliedTypes, acceptedNonces>>
  /\ UNCHANGED dispenseHist

(* ----------------------------- environment ---------------------------- *)
\* the mirror catches up with the ledger
MirrorCatchUp(t) ==
  /\ mirrorStatus[t] # ledgerStatus[t]
  /\ mirrorStatus' = [mirrorStatus EXCEPT ![t] = ledgerStatus[t]]
  /\ lastResp' = NoResp
  /\ UNCHANGED <<elapsed, requests, nonceCtr, prescriptionToTopic,
                 issued, usedNonces, messageQueue, dispenseLocks, submitted,
                 ledgerStatus, issuing, dispensing, paying, overlapped, cancelled, appliedTypes, acceptedNonces>>
  /\ UNCHANGED storeVars
  /\ UNCHANGED dispenseHist

\* time passes the next validUntil instant; a prescription is valid for 60
\* days, longer than any request stays in flight
ValidityEnds ==
  /\ elapsed < Len(issued)
  /\ issuing = {} /\ dispensing = {} /\ paying = {}
  /\ elapsed' = elapsed + 1
  /\ lastResp' = NoResp
  /\ UNCHANGED <<requests, nonceCtr, prescriptionToTopic,
                 issued, usedNonces, messageQueue, dispenseLocks, submitted,
                 ledgerStatus, mirrorStatus, issuing, dispensing, paying,
                 overlapped, cancelled, appliedTypes, acceptedNonces>>
  /\ UNCHANGED storeVars
  /\ UNCHANGED dispenseHist

\* time passes the bounded duration of a held lock
LockTimeout(t) ==
  /\ dispenseLocks[t].held
  /\ ~dispenseLocks[t].expired
  /\ dispenseLocks' = [dispenseLocks EXCEPT ![t].expired = TRUE]
  /\ lastResp' = NoResp
  /\ UNCHANGED <<elapsed, requests, nonceCtr, prescriptionToTopic,
                 issued, usedNonces, messageQueue, submitted,
                 ledgerStatus, mirrorStatus, issuing, dispensing, paying,
                 overlapped, cancelled, appliedTypes, acceptedNonces>>
  /\ UNCHANGED storeVars
  /\ UNCHANGED dispenseHist

(* ---------------------------- specification --------------------------- *)
Next ==
  \/ \E t \in Topics, md \in 0..MaxMd, id \in DoctorIds, viaLedger \in BOOLEAN :
       IssueIndex(t, md, id, viaLedger)
  \/ \E r \in issuing, ok \in BOOLEAN : IssueFinish(r, ok)
  \/ \E in \in VerifyInputs, id \in DoctorIds, fraud \in FraudChecks :
       Verify(in, id, fraud)
  \/ \E t \in Topics : VerifyNotFound(t)
  \/ \E p \in 0..Len(prescriptionToTopic), ph \in {"ph1", ""},
        mirrorOk \in BOOLEAN : PayCheck(p, ph, mirrorOk)
  \/ \E r \in paying : PayEmit(r)
  \/ \E r \in paying, ok \in BOOLEAN : PayFinish(r, ok)
  \/ \E t \in Topics, ph \in Pharmacists : DispenseConflict(t, ph)
  \/ \E t \in Topics, ph \in Pharmacists : DispenseReject(t, ph)
  \/ \E t \in Topics, ph \in Pharmacists : DispenseThrow(t, ph)
  \/ \E t \in Topics, ph \in Pharmacists, prevIn \in BodyPrevHashes :
       DispenseStart(t, ph, prevIn)
  \/ \E d \in dispensing, ok \in BOOLEAN : DispenseFinish(d, ok)
  \/ \E p \in 0..Len(prescriptionToTopic), ok \in BOOLEAN : Cancel(p, ok)
  \/ \E p \in 0..Len(prescriptionToTopic), ok \in BOOLEAN : Amend(p, ok)
  \/ \E t \in Topics, mirrorOk \in BOOLEAN : Lookup(t, mirrorOk)
  \/ \E t \in Topics, mirrorOk \in BOOLEAN : StatusEndpoint(t, mirrorOk)
  \/ \E t \in Topics : Reconcile(t)
  \/ \E t \in Topics : MirrorCatchUp(t)
  \/ ValidityEnds
  \/ \E t \in Topics : LockTimeout(t)

Spec == Init /\ [][Next]_vars

\* the life of the dispense lock: the issue and dispense handlers and the
\* lock's timer, which runs whatever the requests do
LockNext ==
  \/ \E t \in Topics, md \in 0..MaxMd, id \in DoctorIds, viaLedger \in BOOLEAN :
       IssueIndex(t, md, id, viaLedger)
  \/ \E r \in issuing, ok \in BOOLEAN : IssueFinish(r, ok)
  \/ \E t \in Topics, ph \in Pharmacists : DispenseConflict(t, ph)
  \/ \E t \in Topics, ph \in Pharmacists : DispenseReject(t, ph)
  \/ \E t \in Topics, ph \in Pharmacists : DispenseThrow(t, ph)
  \/ \E t \in Topics, ph \in Pharmacists, prevIn \in BodyPrevHashes :
       DispenseStart(t, ph, prevIn)
  \/ \E d \in dispensing, ok \in BOOLEAN : DispenseFinish(d, ok)
  \/ \E t \in Topics : LockTimeout(t)

LockSpec ==
  /\ Init
  /\ [][LockNext]_vars
  /\ \A t \in Topics : WF_vars(LockTimeout(t))

\* the payment handler against a ledger of any status: the issue and
\* payment handlers and the mirror
PayNext ==
  \/ \E t \in Topics, md \in 0..MaxMd, id \in DoctorIds, viaLedger \in BOOLEAN :
       IssueIndex(t, md, id, viaLedger)
  \/ \E r \in issuing, ok \in BOOLEAN : IssueFinish(r, ok)
  \/ \E p \in 0..Len(prescriptionToTopic), ph \in {"ph1", ""},
        mirrorOk \in BOOLEAN : PayCheck(p, ph, mirrorOk)
  \/ \E r \in paying : PayEmit(r)
  \/ \E r \in paying, ok \in BOOLEAN : PayFinish(r, ok)
  \/ \E t \in Topics : MirrorCatchUp(t)

PaySpec == PayInit /\ [][PayNext]_vars

\* the batch payment handler, with the issue and dispense handlers and the
\* mirror
BatchNext ==
  \/ \E t \in Topics, md \in 0..MaxMd, id \in DoctorIds, viaLedger \in BOOLEAN :
       IssueIndex(t, md, id, viaLedger)
  \/ \E r \in issuing, ok \in BOOLEAN : IssueFinish(r, ok)
  \/ \E t \in Topics, ph \in Pharmacists, prevIn \in BodyPrevHashes :
       DispenseStart(t, ph, prevIn)
  \/ \E d \in dispensing, ok \in BOOLEAN : DispenseFinish(d, ok)
  \/ BatchRejectEmpty
  \/ \E ids \in BatchIds, ph \in {"ph1", ""} : BatchStart(ids, ph)
  \/ \E r \in paying, mirrorOk \in BOOLEAN : BatchCheck(r, mirrorOk)
  \/ \E r \in paying : BatchEmit(r)
  \/ \E r \in paying, ok \in BOOLEAN : BatchFinish(r, ok)
  \/ \E t \in Topics : MirrorCatchUp(t)

BatchSpec == Init /\ [][BatchNext]_vars

(* ------------------------------ properties ---------------------------- *)
\* C1: in every reachable state, every channel held in the store has
\* dispenseCount <= maxDispenses, whatever requests have run and however
\* they interleaved
C1_CountWithinMax ==
  \A t \in Topics :
    inMemoryStore[t] # NoObj => StoredDispenseCount(t) <= StoredMaxDispenses(t)

\* a channel asked for more than one dispense has been dispensed to its limit
C1_Reached ==
  \E t \in Topics :
    /\ inMemoryStore[t] # NoObj
    /\ StoredMaxRaw(t) > 1
    /\ StoredDispenseCount(t) = StoredMaxRaw(t)
    /\ lastEventTypePerTopic[t] = "dispensed"

\* C2: for a channel issued with maxDispenses = N, however dispense requests
\* overlap, at most N of them are answered with success, and no two
\* successful requests commit the same count k+1 from the same read k
C2_ExactlyNSucceed ==
  /\ \A i \in 1..Len(heap) : dispSucc[i] <= heap[i].payload.maxDispenses
  /\ ~doubleCommit

\* C3: at no time are two dispense requests for one channel both past the
\* lock acquisition
C3_OneRequestPastLock ==
  \A d1, d2 \in dispensing :
    (d1.topicID = d2.topicID /\ inMemoryStore[d1.topicID] # NoObj) => d1 = d2

\* the entries whose dispenses ran one after the other
Sequential == {i \in 1..Len(heap) : i \notin overlapped}

\* C4: for sequential dispenses on a channel issued with maxDispenses = N,
\* the k-th success leaves dispenseCount = k with k <= N, no further dispense
\* gets past the gate, and a rejection carries the message 'Prescription
\* fully dispensed (N/N)' and leaves the count, the hash head, the last
\* event type, the status and the audit log as they were
C4_SequentialDispenses ==
  [][/\ \A i \in Sequential' :
          /\ heap'[i].payload.dispenseCount = dispSucc'[i]
          /\ dispSucc'[i] <= heap'[i].payload.maxDispenses
          /\ \A d \in dispensing' :
                d.obj = i => d.newDispenseCount = dispSucc'[i] + 1
                             /\ d.newDispenseCount <= heap'[i].payload.maxDispenses
     /\ (requests' = requests + 1 /\ lastResp'.op = "dispense" /\ lastResp'.code = 400)
          => /\ lastResp'.message =
                  <<"Prescription fully dispensed",
                    StoredMaxDispenses(lastResp'.topicID),
                    StoredMaxDispenses(lastResp'.topicID)>>
             /\ StoredDispenseCount(lastResp'.topicID) = StoredMaxDispenses(lastResp'.topicID)
             /\ UNCHANGED <<heap, inMemoryStore, lastEventHashPerTopic,
                            lastEventTypePerTopic, hcsEventLog>>
    ]_vars

\* a channel dispensed to its limit, one request after the other, has just
\* rejected a further dispense
C4_Rejected ==
  /\ lastResp.op = "dispense"
  /\ lastResp.code = 400
  /\ inMemoryStore[lastResp.topicID] \in Sequential
  /\ dispSucc[inMemoryStore[lastResp.topicID]] = StoredMaxDispenses(lastResp.topicID)

\* the event a step hands to the ledger, when it hands one
Submits == Len(submitted') = Len(submitted) + 1
Handed == submitted'[Len(submitted')]

\* the type an event carries
TypeOf(event) ==
  IF "eventType" \in DOMAIN event THEN event.eventType ELSE event.type

\* C5: every event handed to the ledger after the issued one carries a
\* prevEventHash equal to its channel's lastEventHash at that moment
C5_LinkedToHead ==
  [][(Submits /\ TypeOf(Handed.event) # "issued")
       => /\ "prevEventHash" \in DOMAIN Handed.event
          /\ Handed.event.prevEventHash = lastEventHashPerTopic[Handed.topicID]
    ]_vars

\* the place in submitted of the issued event the channel's chain starts at
ChainStart(t) ==
  LET at == {k \in 1..Len(submitted) :
               submitted[k].topicID = t /\ TypeOf(submitted[k].event) = "issued"}
  IN IF at = {} THEN 1 ELSE CHOOSE k \in at : \A j \in at : j <= k

\* the events handed to the ledger for a channel since it was issued, in
\* submission order
EventsOf(t) ==
  SelectSeq(SubSeq(submitted, ChainStart(t), Len(submitted)),
            LAMBDA m : m.topicID = t)

\* C6: the prevEventHash links of a channel reproduce its submission order:
\* each submitted event's hash is the prevEventHash of the next one, and no
\* two submitted events of a channel have the same prevEventHash
C6_LinksReproduceOrder ==
  \A t \in {x \in Topics : inMemoryStore[x] # NoObj} :
    LET es == EventsOf(t)
    IN /\ \A k \in 2..Len(es) :
            /\ "prevEventHash" \in DOMAIN es[k].event
            /\ es[k].event.prevEventHash = Sha256(es[k - 1].event)
       /\ \A j, k \in 2..Len(es) :
            ("prevEventHash" \in DOMAIN es[j].event
             /\ "prevEventHash" \in DOMAIN es[k].event
             /\ es[j].event.prevEventHash = es[k].event.prevEventHash) => j = k

\* a channel that was cancelled, or is dispensed to its limit
Terminal(t) ==
  \/ t \in cancelled
  \/ inMemoryStore[t] # NoObj /\ StoredDispenseCount(t) >= StoredMaxDispenses(t)

\* the dispense requests a step lets past the gate
NewDispenses == dispensing' \ dispensing

\* the step answers a verify request
VerifyAnswered == requests' = requests + 1 /\ lastResp'.op = "verify"

\* C7: once a channel is cancelled or fully dispensed, every later verify
\* and dispense for it is rejected
C7_TerminalRejects ==
  [][/\ \A d \in NewDispenses : ~Terminal(d.topicID)
     /\ (VerifyAnswered /\ Terminal(lastResp'.topicID)) => lastResp'.code # 200
    ]_vars

\* C8: a channel is paid only after it was verified and dispensed only after
\* it was paid
C8_LifeCycleOrder ==
  \A t \in Topics :
    inMemoryStore[t] # NoObj =>
      /\ "paid" \in appliedTypes[t] => "verified" \in appliedTypes[t]
      /\ "dispensed" \in appliedTypes[t] => "paid" \in appliedTypes[t]

\* C9: a verify whose payload carries a nonce that an accepted verify has
\* consumed is rejected, in the long form and in the QR short form
C9_ReplayRejected ==
  [][(VerifyAnswered /\ lastResp'.nonce # 0 /\ lastResp'.nonce \in acceptedNonces)
       => lastResp'.code # 200
    ]_vars

\* C10: a verify or dispense for a channel whose validUntil has passed is
\* rejected, for the QR short form and for the stored long form
C10_ExpiredRejected ==
  [][/\ \A d \in NewDispenses :
          d.obj # NoObj => ~PastValidUntil(heap[d.obj].payload.validUntil)
     /\ (VerifyAnswered /\ lastResp'.expired) => lastResp'.code # 200
    ]_vars

\* the requests whose await of the ledger ends in a step
IssuesDone == issuing \ issuing'
DispensesDone == dispensing \ dispensing'
PaymentsDone == {r \in paying \ paying' : r.pc = "submit"}

\* C11: whether the ledger submission succeeded or failed, the request
\* completes and the store is updated for its event: the hash head, the last
\* event type, the status and, for dispensed, the count
C11_FailureAbsorbed ==
  [][/\ \A r \in IssuesDone :
          /\ lastEventTypePerTopic'[r.topicID] = "issued"
          /\ lastEventHashPerTopic'[r.topicID] = Sha256(heap'[r.obj].payload)
     /\ \A d \in DispensesDone :
          /\ lastEventTypePerTopic'[d.topicID] = "dispensed"
          /\ lastEventHashPerTopic'[d.topicID] = Sha256(d.payload)
          /\ d.obj # NoObj =>
               /\ heap'[d.obj].payload.dispenseCount = d.newDispenseCount
               /\ heap'[d.obj].status = "dispensed"
     /\ \A r \in PaymentsDone :
          LET t == prescriptionToTopic[r.prescriptionId]
          IN /\ lastEventTypePerTopic'[t] = "paid"
             /\ lastEventHashPerTopic'[t] = Sha256(r.msg)
             /\ inMemoryStore[t] # NoObj => heap'[inMemoryStore[t]].status = "paid"
    ]_vars

\* an event without its signature and contentHash fields
Uncovered(event) ==
  [f \in (DOMAIN event) \ DerivedFields |-> event[f]]

\* C12: every issued, verified, paid and dispensed event handed to the
\* ledger has contentHash = hash of the event without its signature and
\* contentHash fields, so every other field it carries is covered
C12_ContentHashCovers ==
  \A k \in 1..Len(submitted) :
    LET event == submitted[k].event
    IN TypeOf(event) \in {"issued", "verified", "paid", "dispensed"}
         => /\ "contentHash" \in DOMAIN event
            /\ event.contentHash = Sha256(Uncovered(event))

\* the step answers a verify of the unmodified QR payload, or of the stored
\* payload fetched by topicID, of a prescription the named doctor issued
VerifiedBySigner ==
  /\ VerifyAnswered
  /\ lastResp'.code = 200
  /\ lastResp'.mode \in {"qr", "topic"}
  /\ lastResp'.doctorNationalId # ""
  /\ \E i \in 1..Len(issued) :
       /\ issued[i].payload.nonce = lastResp'.nonce
       /\ issued[i].nationalId = lastResp'.doctorNationalId

\* C13: a prescription issued with doctor id D and verified unmodified with
\* doctorNationalId = D reports signatureValid = true, for the QR payload
\* and for the payload fetched by topicID
C13_SignatureRoundTrip ==
  [][VerifiedBySigner => lastResp'.signatureValid = "true"]_vars

\* the lock of the request's channel is held in the request's owner's name
HoldsLock(d) ==
  /\ dispenseLocks[d.topicID].held
  /\ dispenseLocks[d.topicID].owner = d.pharmacist

\* C16: the dispenseCount of a created channel is changed only by a dispense
\* request that holds the channel's lock at that moment
C16_CountChangedUnderLock ==
  [][\A t \in Topics :
       (inMemoryStore[t] # NoObj /\ StoredDispenseCount(t)' # StoredDispenseCount(t))
         => \E d \in DispensesDone : d.topicID = t /\ HoldsLock(d)]_vars

\* the step answers one of the two status-refreshing GET requests
RefreshAnswered ==
  requests' = requests + 1 /\ lastResp'.op \in {"lookup", "status"}

\* C17: a status refresh from the mirror changes at most the cached status:
\* the counts, the hash head, the last event type, the nonce set and the
\* audit log are as before
C17_RefreshFrame ==
  [][RefreshAnswered =>
       /\ \A t \in Topics :
            /\ StoredDispenseCount(t)' = StoredDispenseCount(t)
            /\ StoredMaxRaw(t)' = StoredMaxRaw(t)
       /\ inMemoryStore' = inMemoryStore
       /\ \A o \in DOMAIN heap : heap'[o].payload = heap[o].payload
       /\ UNCHANGED <<lastEventHashPerTopic, lastEventTypePerTopic,
                      usedNonces, hcsEventLog>>]_vars

\* a refresh has overwritten the status of a dispensed channel with the
\* lagging mirror's, and the count is still 1
C17_RefreshedAfterDispense ==
  /\ lastResp.op \in {"lookup", "status"}
  /\ lastResp.code = 200
  /\ inMemoryStore[lastResp.topicID] # NoObj
  /\ StoredDispenseCount(lastResp.topicID) = 1
  /\ lastEventTypePerTopic[lastResp.topicID] = "dispensed"
  /\ CachedStatus(lastResp.topicID) = "issued"

\* C18: after a refresh of a tracked channel whose mirror query succeeded the
\* cached status is the value the mirror returned; when the query fails in
\* the lookup, the cached status is unchanged and the lookup answers from it
C18_RefreshOverwrites ==
  [][\A t \in Topics :
       (RefreshAnswered /\ lastResp'.topicID = t /\ inMemoryStore[t] # NoObj) =>
          /\ (lastResp'.op = "status" /\ lastResp'.code = 200)
               => CachedStatus(t)' = lastResp'.status
          /\ (lastResp'.op = "lookup" /\ lastResp'.hederaStatus # MirrorError)
               => /\ CachedStatus(t)' = lastResp'.hederaStatus
                  /\ lastResp'.status = lastResp'.hederaStatus
          /\ (lastResp'.op = "lookup" /\ lastResp'.hederaStatus = MirrorError)
               => /\ heap' = heap
                  /\ lastResp'.code = 200
                  /\ lastResp'.status = CachedStatus(t)]_vars

\* a lookup has overwritten the status a payment had cached with the lagging
\* mirror's
C18_PaidOverwritten ==
  /\ lastResp.op = "lookup"
  /\ lastResp.hederaStatus = "issued"
  /\ lastResp.status = "issued"
  /\ lastEventTypePerTopic[lastResp.topicID] = "paid"

\* the step answers a dispense request with the lock conflict
ConflictAnswered ==
  /\ requests' = requests + 1
  /\ lastResp'.op = "dispense"
  /\ lastResp'.code = 409

\* C19: a dispense request rejected with the lock conflict changes nothing:
\* no event is built, queued or submitted, and the store, the sensitive
\* records, the audit log and the lock are as before; it is not retried
C19_ConflictChangesNothing ==
  [][ConflictAnswered =>
       /\ UNCHANGED <<nonceCtr, messageQueue, submitted, dispensing>>
       /\ UNCHANGED storeVars
       /\ UNCHANGED dispenseLocks]_vars

\* a dispense request has been answered with the lock conflict while the
\* holder's request is still in flight
C19_ConflictSeen ==
  /\ lastResp.op = "dispense"
  /\ lastResp.code = 409
  /\ \E d \in dispensing :
       /\ d.topicID = lastResp.topicID
       /\ HoldsLock(d)

\* no dispense request of the channel is between its acquisition of the lock
\* and its exit
AllCompleted(t) == \A d \in dispensing : d.topicID # t

\* another request can acquire the lock: it is released or has timed out
LockFree(t) == ~dispenseLocks[t].held \/ LockExpired(dispenseLocks[t])

\* C20: every exit path of a dispense request that acquired the lock
\* releases it, so the lock of a channel whose dispense requests have all
\* completed is not held; and a held lock, its holder never completing
\* included, eventually is free through the timeout
C20_LockReleased ==
  /\ [](\A t \in Topics : AllCompleted(t) => ~dispenseLocks[t].held)
  /\ \A t \in Topics : dispenseLocks[t].held ~> LockFree(t)

\* the lock has timed out under a holder whose request has not completed
C20_ExpiredUnderHolder ==
  \E d \in dispensing :
    /\ HoldsLock(d)
    /\ LockExpired(dispenseLocks[d.topicID])

\* the step answers a verify request with valid = true
VerifyAccepted == VerifyAnswered /\ lastResp'.outcome = "valid"

\* C21: after every verify that answers valid = true a verified event has
\* been handed to the ledger, the channel's last event type is 'verified',
\* its head is the hash of that event and exactly one 'verified' audit-log
\* entry has been appended
C21_VerifiedApplied ==
  [][\A t \in Topics :
       (VerifyAccepted /\ lastResp'.topicID = t) =>
          /\ Len(submitted') = Len(submitted) + 1
          /\ submitted'[Len(submitted')].topicID = t
          /\ TypeOf(submitted'[Len(submitted')].event) = "verified"
          /\ lastEventTypePerTopic'[t] = "verified"
          /\ lastEventHashPerTopic'[t] = Sha256(submitted'[Len(submitted')].event)
          /\ Len(hcsEventLog') = Len(hcsEventLog) + 1
          /\ hcsEventLog'[Len(hcsEventLog')].eventType = "verified"]_vars

\* the reasons a verify request is rejected for; none is about the signature
SignatureBlindOutcomes ==
  {"valid", "notFound", "fullyDispensed409", "unsupportedVersion", "expired",
   "fullyDispensed400", "duplicateNonce"}

\* the payload carries a signature under either field name
Signed(payload) == "signature" \in DOMAIN payload \/ "s" \in DOMAIN payload

\* the requests the step's answer can be the answer to
AnsweredInputs ==
  {in \in VerifyInputs : /\ in.mode = lastResp'.mode
                         /\ in.topicID = lastResp'.topicID
                         /\ CarriedNonce(in.payload) = lastResp'.nonce}

\* C22: signature failure in verify is fail-open: no verify is rejected for
\* its signature; an accepted one reports signatureValid = null exactly when no
\* doctor id is supplied and false when one is supplied and the signature is
\* missing; and what an accepted or a rejected verify writes does not depend
\* on the signature outcome
C22_FailOpen ==
  [][VerifyAnswered =>
       /\ lastResp'.outcome \in SignatureBlindOutcomes
       /\ lastResp'.outcome = "valid" =>
            /\ lastResp'.doctorNationalId = "" <=> lastResp'.signatureValid = "null"
            /\ lastResp'.doctorNationalId # "" =>
                 /\ lastResp'.signatureValid \in {"true", "false"}
                 /\ \A in \in AnsweredInputs :
                      ~Signed(in.payload) => lastResp'.signatureValid = "false"
            /\ Len(hcsEventLog') = Len(hcsEventLog) + 1
       /\ lastResp'.outcome # "valid" => UNCHANGED <<usedNonces, hcsEventLog>>
       /\ UNCHANGED <<heap, inMemoryStore, lastEventHashPerTopic,
                      lastEventTypePerTopic, sensitiveData, submitted,
                      messageQueue>>]_vars

\* a verify naming the doctor was accepted although the payload's signature
\* is missing or does not verify
C22_AcceptedUnverified ==
  /\ lastResp.op = "verify"
  /\ lastResp.outcome = "valid"
  /\ lastResp.doctorNationalId # ""
  /\ lastResp.signatureValid = "false"

\* the store after the step is the one the answered request leaves for the
\* outcome fraud of its fraud check
StoreAsWith(in, fraud) ==
  /\ lastResp'.outcome = CheckedOutcome(in.payload, fraud)
  /\ hcsEventLog' = IF lastResp'.outcome = "valid"
                    THEN Append(hcsEventLog,
                           VerifiedLogEntry(in.payload, FraudAlert(in.payload, fraud)))
                    ELSE hcsEventLog
  /\ usedNonces' = IF lastResp'.outcome = "valid" /\ GuardNonce(in.payload) # 0
                   THEN usedNonces \cup {GuardNonce(in.payload)} ELSE usedNonces
  /\ UNCHANGED <<heap, inMemoryStore, lastEventHashPerTopic,
                 lastEventTypePerTopic, sensitiveData>>

\* a record without its fraudAlert field
NoAlert(entry) == [f \in (DOMAIN entry) \ {"fraudAlert"} |-> entry[f]]

NewIssues == issuing' \ issuing

\* C24: an issuance whose channel creation failed succeeds all the same: the
\* prescription is indexed under the placeholder id with dispenseCount 0,
\* and on completion the request answers 200 and the channel's last event
\* type is 'issued', as for a ledger-assigned id
C24_DegradedIssueSucceeds ==
  [][/\ \A r \in NewIssues :
          /\ r.degraded => r.topicID = PlaceholderTopic
          /\ inMemoryStore'[r.topicID] = r.obj
          /\ StoredDispenseCount(r.topicID)' = 0
          /\ prescriptionToTopic'[Len(prescriptionToTopic')] = r.topicID
          /\ hcsEventLog'[Len(hcsEventLog')].eventType = "issued"
          /\ hcsEventLog'[Len(hcsEventLog')].topicID = r.topicID
     /\ \A r \in IssuesDone :
          /\ lastResp'.op = "issue"
          /\ lastResp'.code = 200
          /\ lastResp'.topicID = r.topicID
          /\ lastEventTypePerTopic'[r.topicID] = "issued"]_vars

\* an issuance in degraded mode has completed: the prescription is stored
\* under the placeholder id, count 0, last event type 'issued'
C24_DegradedIssued ==
  /\ lastResp.op = "issue"
  /\ lastResp.degraded
  /\ lastResp.code = 200
  /\ lastResp.topicID = PlaceholderTopic
  /\ inMemoryStore[PlaceholderTopic] = lastResp.prescriptionId
  /\ StoredDispenseCount(PlaceholderTopic) = 0
  /\ lastEventTypePerTopic[PlaceholderTopic] = "issued"

\* C25: no issuance writes to a channel id that already has an entry in the
\* store, and an entry, once set, is never replaced by an issuance
C25_EntryNeverReplaced ==
  [][\A r \in NewIssues :
       /\ inMemoryStore[r.topicID] = NoObj
       /\ \A t \in Topics :
            inMemoryStore[t] # NoObj => inMemoryStore'[t] = inMemoryStore[t]]_vars

\* the step answers a cancel request, an amend request
CancelAnswered == requests' = requests + 1 /\ lastResp'.op = "cancelled"
AmendAnswered == requests' = requests + 1 /\ lastResp'.op = "amended"

\* C26: cancellation only appends: a cancel request submits a new cancelled
\* event and removes or rewrites no prior event, hash head, audit-log entry,
\* channel entry or consumed nonce
C26_CancelOnlyAppends ==
  [][CancelAnswered =>
       /\ SubSeq(submitted', 1, Len(submitted)) = submitted
       /\ lastResp'.topicID \in Topics =>
            /\ Len(submitted') = Len(submitted) + 1
            /\ TypeOf(submitted'[Len(submitted')].event) = "cancelled"
            /\ submitted'[Len(submitted')].topicID = lastResp'.topicID
       /\ UNCHANGED <<heap, inMemoryStore, lastEventHashPerTopic,
                      lastEventTypePerTopic, hcsEventLog, sensitiveData,
                      usedNonces, messageQueue, prescriptionToTopic>>]_vars

\* a dispensed prescription has been cancelled: the cancelled event is the
\* last one submitted and the channel's entry and head are still there
C26_CancelledAfterDispense ==
  /\ lastResp.op = "cancelled"
  /\ lastResp.code = 200
  /\ lastResp.topicID \in Topics
  /\ TypeOf(submitted[Len(submitted)].event) = "cancelled"
  /\ inMemoryStore[lastResp.topicID] # NoObj
  /\ lastEventTypePerTopic[lastResp.topicID] = "dispensed"
  /\ StoredDispenseCount(lastResp.topicID) = 1

\* C27: an amend request leaves the channel's status, last event type and
\* dispenseCount unchanged, whatever state the channel is in
C27_AmendKeepsStatus ==
  [][AmendAnswered =>
       /\ \A t \in Topics :
            /\ CachedStatus(t)' = CachedStatus(t)
            /\ StoredDispenseCount(t)' = StoredDispenseCount(t)
       /\ UNCHANGED <<heap, inMemoryStore, lastEventTypePerTopic, ledgerStatus>>]_vars

\* a paid channel has been amended and is still paid
C27_AmendedWhilePaid ==
  /\ lastResp.op = "amended"
  /\ lastResp.code = 200
  /\ lastResp.topicID \in Topics
  /\ TypeOf(submitted[Len(submitted)].event) = "amended"
  /\ lastEventTypePerTopic[lastResp.topicID] = "paid"
  /\ CachedStatus(lastResp.topicID) = "paid"

\* the places in submitted of the channel's events
PlacesOf(t) == {k \in 1..Len(submitted) : submitted[k].topicID = t}

\* the dispense request the step starts carries a prevEventHash that is not
\* the channel's head
Stale(d) == d.payload.prevEventHash # lastEventHashPerTopic[d.topicID]

\* C28: a dispense request whose prevEventHash is not the channel's head is
\* accepted and its event handed to the ledger with that value, and the break
\* shows in the links: the value is not the hash of the channel's event
\* submitted immediately before
C28_StaleLinkDetectable ==
  [][\A d \in NewDispenses :
       Stale(d) =>
         /\ Submits
         /\ Handed.event = d.payload
         /\ \A k \in PlacesOf(d.topicID) :
              (\A j \in PlacesOf(d.topicID) : j <= k)
                => d.payload.prevEventHash # Sha256(submitted[k].event)]_vars

\* the channel of a payment request
ChannelOf(r) == prescriptionToTopic[r.prescriptionId]

\* C30: no paid event is applied to a fully dispensed channel: when a payment
\* completes on a channel whose dispenseCount has reached maxDispenses, the
\* channel's status and last event type do not change to 'paid'
C30_NoPaidWhenFullyDispensed ==
  [][\A r \in PaymentsDone :
       (/\ inMemoryStore[ChannelOf(r)] # NoObj
        /\ FullyDispensed(StoredDispenseCount(ChannelOf(r)),
                          StoredMaxDispenses(ChannelOf(r))))
         => /\ lastEventTypePerTopic'[ChannelOf(r)] # "paid"
            /\ CachedStatus(ChannelOf(r))' # "paid"]_vars


\* a payment request for channel t was answered 409 because of its status
PayStatusRefused(t) ==
  /\ requests' = requests + 1
  /\ lastResp'.op = "payment"
  /\ lastResp'.code = 409
  /\ lastResp'.error = "status"
  /\ lastResp'.topicID = t

\* C29: a payment for a stored channel whose ledger status is 'verified'
\* and whose dispenseCount is below maxDispenses is accepted: it is never
\* answered 409 because of the status
C29_VerifiedPayable ==
  [][\A t \in Topics :
       (/\ inMemoryStore[t] # NoObj
        /\ mirrorStatus[t] = "verified"
        /\ StoredDispenseCount(t) < StoredMaxDispenses(t))
         => ~PayStatusRefused(t)]_vars


\* a verify request by topicID for channel t was answered in this step
VerifiedByTopic(t) ==
  /\ requests' = requests + 1
  /\ lastResp'.op = "verify"
  /\ lastResp'.mode = "topic"
  /\ lastResp'.topicID = t

\* C31: a verification by topicID of a stored channel that is within its
\* validity and has dispenses left succeeds, the first time and every later
\* time
C31_VerifyBeforeEveryRefill ==
  [][\A t \in Topics :
       (/\ VerifiedByTopic(t)
        /\ inMemoryStore[t] # NoObj
        /\ StoredDispenseCount(t) < StoredMaxDispenses(t)
        /\ ~lastResp'.expired)
         => lastResp'.code = 200]_vars


\* C32: the release of a completing dispense request never frees a lock
\* that a different requester holds: when the channel's lock is held,
\* unexpired, by another owner, it is held by that owner afterwards
C32_ReleaseKeepsOthersLock ==
  [][\A d \in DispensesDone :
       (/\ dispenseLocks[d.topicID].held
        /\ ~LockExpired(dispenseLocks[d.topicID])
        /\ dispenseLocks[d.topicID].owner # d.pharmacist)
         => dispenseLocks'[d.topicID] = dispenseLocks[d.topicID]]_vars


\* C33: a dispense is answered with success only for a channel that has an
\* entry in the store
C33_DispenseNeedsEntry ==
  [][\A d \in DispensesDone :
       lastResp'.code = 200 => inMemoryStore[d.topicID] # NoObj]_vars


\* the audit-log entry a step appends, when it appends one
Logs == Len(hcsEventLog') = Len(hcsEventLog) + 1
Logged == hcsEventLog'[Len(hcsEventLog')]

\* the dispenseCount of no stored channel decreases in this step
CountNotDecreased ==
  \A t \in Topics :
    inMemoryStore[t] # NoObj => StoredDispenseCount(t)' >= StoredDispenseCount(t)

\* a dispense completing with success on a channel it found in the store
\* raises the count by exactly 1
CountRaisedByOne ==
  \A d \in DispensesDone : \A t \in Topics :
    (d.topicID = t /\ lastResp'.code = 200 /\ d.obj # NoObj)
      => StoredDispenseCount(t)' = StoredDispenseCount(t) + 1

\* the dispensed event and the audit-log entry of a dispense completing on a
\* channel it found in the store carry the new count and the channel's
\* maxDispenses
CountCarried ==
  \A d \in DispensesDone : \A t \in Topics :
    (d.topicID = t /\ lastResp'.code = 200 /\ d.obj # NoObj)
      => /\ d.payload.dispenseCount = StoredDispenseCount(t)'
         /\ d.payload.maxDispenses = StoredMaxDispenses(t)'
         /\ Logs
         /\ Logged.topicID = t
         /\ Logged.dispenseCount = StoredDispenseCount(t)'
         /\ Logged.maxDispenses = StoredMaxDispenses(t)'

\* C34: a channel's dispenseCount never decreases, every successful dispense
\* on a stored channel raises it by exactly 1, and the dispensed event and
\* the audit-log entry of that dispense carry the new count and the
\* channel's maxDispenses
C34_CountStepsByOne ==
  [][CountNotDecreased /\ CountRaisedByOne /\ CountCarried]_vars


\* the payment requests whose timer fires in this step
PaymentsEmitting == {r \in paying \ paying' : r.pc = "timer"}

\* C35: a payment whose ledger submission threw leaves the head, the last
\* event type, the status and the audit log as they were and is answered
\* with success; a payment without channel mapping or without pharmacist id
\* gets the same answer and no event is built
C35_PaymentFailureAbsorbed ==
  [][/\ \A r \in PaymentsDone :
          ~lastResp'.ledgerOk
            => /\ UNCHANGED <<lastEventHashPerTopic, lastEventTypePerTopic,
                              heap, hcsEventLog>>
               /\ lastResp'.code = 200
     /\ \A r \in PaymentsEmitting :
          (~Mapped(r.prescriptionId) \/ r.pharmacist = "")
            => /\ ~Submits
               /\ UNCHANGED <<lastEventHashPerTopic, lastEventTypePerTopic,
                              heap, hcsEventLog>>
               /\ lastResp'.op = "payment"
               /\ lastResp'.code = 200]_vars

\* a payment for a stored channel was answered with success after its ledger
\* submission threw, and the channel is still as issued
C35_ThrownAndAnswered ==
  /\ lastResp.op = "payment"
  /\ lastResp.code = 200
  /\ "ledgerOk" \in DOMAIN lastResp
  /\ ~lastResp.ledgerOk
  /\ inMemoryStore[lastResp.topicID] # NoObj
  /\ lastEventTypePerTopic[lastResp.topicID] = "issued"


\* a listed prescription is unmapped, fully dispensed or in a status other
\* than issued and dispensed
ListedIneligible(p) ==
  \/ ~Mapped(p)
  \/ StoredDispenseCount(prescriptionToTopic[p]) >= StoredMaxDispenses(prescriptionToTopic[p])
  \/ mirrorStatus[prescriptionToTopic[p]] \notin {"issued", "dispensed"}

\* the batch requests that get a prescription checked in this step, the
\* mirror having answered
BatchesChecked ==
  {r \in paying \ paying' :
     r.pc = "batchCheck" /\ ~(lastResp'.op = "batch" /\ lastResp'.code = 500)}

\* the batch request is still in flight after the step
StillInFlight(r) == \E q \in paying' : q.id = r.id

\* C36: a batch payment is all-or-nothing on eligibility: each check records
\* what the store and the mirror say, and a batch whose list holds a
\* prescription found ineligible is answered 409 after its last check, hands
\* no event to the ledger and changes no head, last event type or status;
\* only a batch found eligible throughout waits for its timer
C36_BatchAllOrNothing ==
  [][/\ \A r \in BatchesChecked :
          LET p    == r.ids[Len(r.checks) + 1]
              last == Len(r.checks) + 1 = Len(r.ids)
              bad  == ListedIneligible(p)
                        \/ \E i \in 1..Len(r.checks) : r.checks[i] # "eligible"
          IN /\ ~Submits
             /\ UNCHANGED <<lastEventHashPerTopic, lastEventTypePerTopic, heap>>
             /\ \A q \in paying' :
                  (q.id = r.id /\ q.pc = "batchCheck")
                    => (q.checks[Len(q.checks)] = "eligible" <=> ~ListedIneligible(p))
             /\ (last /\ bad)
                  => /\ lastResp'.op = "batch"
                     /\ lastResp'.code = 409
                     /\ ~StillInFlight(r)
             /\ (last /\ ~bad) => StillInFlight(r)
     /\ \A q \in paying' :
          q.pc \in {"batchTimer", "batchSubmit"}
            => \A i \in 1..Len(q.checks) : q.checks[i] = "eligible"]_vars

\* a batch of two prescriptions, the first eligible and the second not, has
\* been refused with 409
C36_MixedBatchRefused ==
  /\ lastResp.op = "batch"
  /\ lastResp.code = 409
  /\ Len(lastResp.ids) = 2
  /\ lastResp.checks[1] = "eligible"
  /\ lastResp.checks[2] \in {"Fully dispensed", "Invalid status", "Not found"}


\* an event of the entry's type was handed to the ledger for the entry's
\* channel
HandedFor(entry) ==
  \E k \in 1..Len(submitted) :
    /\ submitted[k].topicID = entry.topicID
    /\ TypeOf(submitted[k].event) = entry.eventType

\* C37: every verified, paid or dispensed entry of the audit log stands for
\* an event of that type that was built and handed to the ledger for that
\* channel
C37_LogMatchesSubmissions ==
  \A i \in 1..Len(hcsEventLog) :
    hcsEventLog[i].eventType \in {"verified", "paid", "dispensed"}
      => HandedFor(hcsEventLog[i])

\* the outcomes of the checks that come before the nonce guard
EarlyRejections ==
  {"notFound", "fullyDispensed409", "unsupportedVersion", "expired",
   "fullyDispensed400"}

\* C38: a verification rejected before the nonce guard leaves the set of
\* consumed nonces as it was, and a nonce enters the set only in a step
\* that answers a verification that passed every check
C38_RejectionKeepsNonces ==
  [][/\ (VerifyAnswered /\ lastResp'.outcome \in EarlyRejections)
          => usedNonces' = usedNonces
     /\ usedNonces' # usedNonces
          => /\ VerifyAnswered
             /\ lastResp'.outcome = "valid"
             /\ usedNonces' = usedNonces \cup {lastResp'.nonce}]_vars

\* a verification of the stored payload, which carries its nonce in the
\* field the guard reads, was rejected before the nonce guard, and the nonce
\* is not consumed
C38_RejectedUnconsumed ==
  /\ lastResp.op = "verify"
  /\ lastResp.mode = "topic"
  /\ lastResp.outcome \in EarlyRejections
  /\ lastResp.nonce # 0
  /\ lastResp.nonce \notin usedNonces


\* the channel's count is 0 and its maxDispenses the requested value, 1 when
\* the request omitted it
FreshCounts(r) ==
  \A t \in Topics :
    r.topicID = t =>
      /\ StoredDispenseCount(t)' = 0
      /\ StoredMaxDispenses(t)' = (IF r.requested = 0 THEN 1 ELSE r.requested)
      /\ StoredMaxDispenses(t)' \in 1..12

\* the channel's last event type is 'issued' and its head the hash of the
\* issued event as it was handed to the ledger
FreshHead(r) ==
  /\ lastEventTypePerTopic'[r.topicID] = "issued"
  /\ lastEventHashPerTopic'[r.topicID] = Sha256(issued[r.obj].payload)

\* the issued event starts the chain
StartsChain(r) == "prevEventHash" \notin DOMAIN issued[r.obj].payload

\* C39: when an issue request is answered, its channel has dispenseCount 0,
\* the requested maxDispenses (1 when omitted, within 1..12), last event type
\* 'issued' and the hash of the issued event as head, and the issued event
\* carries no prevEventHash, whether the ledger took the event or not
C39_FreshChannel ==
  [][\A r \in IssuesDone :
       FreshCounts(r) /\ FreshHead(r) /\ StartsChain(r)]_vars

====
